---- MODULE Spec2Model ----
(***************************************************************************)
(* A model of blade's abstract Target (src/blade/target.py): the target    *)
(* key parser, dependency resolution, visibility, the source-ownership     *)
(* map, the fingerprint and the lazily generated build-code buffer.        *)
(*                                                                         *)
(* Python strings are modelled as sequences of one-character strings, so   *)
(* that parsing, joining and normalising are computed and not assumed.     *)
(***************************************************************************)
EXTENDS Naturals, Integers, Sequences, FiniteSets, TLC

(***************************************************************************)
(* Strings                                                                 *)
(***************************************************************************)

\* str.startswith(prefix)
StartsWith(s, p) ==
    /\ Len(s) >= Len(p)
    /\ \A i \in 1..Len(p) : s[i] = p[i]

\* `sub in s` for strings
Contains(s, sub) ==
    \E i \in 0..(Len(s) - Len(sub)) : \A j \in 1..Len(sub) : s[i + j] = sub[j]

\* s[n:]
DropFirst(s, n) == IF n >= Len(s) THEN <<>> ELSE SubSeq(s, n + 1, Len(s))

\* str.count(c) for a one-character c
CountChar(s, c) == Cardinality({i \in 1..Len(s) : s[i] = c})

\* The characters of \w in the regular expressions
WordChars ==
    {"a","b","c","d","e","f","g","h","i","j","k","l","m","n","o","p","q","r","s",
     "t","u","v","w","x","y","z","A","B","C","D","E","F","G","H","I","J","K","L",
     "M","N","O","P","Q","R","S","T","U","V","W","X","Y","Z","0","1","2","3","4",
     "5","6","7","8","9","_"}

\* [\w./+-] of _TARGET_RE
PathChars == WordChars \cup {".", "/", "+", "-"}

\* [\w.+-] of _TARGET_RE
NameChars == WordChars \cup {".", "+", "-"}

\* index of the last occurrence of character c in s, 0 if none (str.rfind + 1)
LastIndex(s, c) ==
    IF \A i \in 1..Len(s) : s[i] # c THEN 0
    ELSE CHOOSE i \in 1..Len(s) : s[i] = c /\ \A j \in (i + 1)..Len(s) : s[j] # c

AllIn(s, chars) == \A i \in 1..Len(s) : s[i] \in chars

\* os.path.join(a, b), posix
PathJoin(a, b) ==
    IF StartsWith(b, <<"/">>) THEN b
    ELSE IF a = <<>> \/ a[Len(a)] = "/" THEN a \o b
    ELSE a \o <<"/">> \o b

\* path.split('/'): the components between the slashes
RECURSIVE SplitSlash(_)
SplitSlash(s) ==
    IF \A i \in 1..Len(s) : s[i] # "/" THEN <<s>>
    ELSE LET i == CHOOSE k \in 1..Len(s) :
                      s[k] = "/" /\ \A j \in 1..(k - 1) : s[j] # "/"
         IN  <<SubSeq(s, 1, i - 1)>> \o SplitSlash(DropFirst(s, i))

\* '/'.join(comps)
RECURSIVE JoinSlash(_)
JoinSlash(comps) ==
    IF comps = <<>> THEN <<>>
    ELSE IF Len(comps) = 1 THEN comps[1]
    ELSE comps[1] \o <<"/">> \o JoinSlash(Tail(comps))

\* the loop of posixpath.normpath over the components
RECURSIVE NormComps(_, _, _)
NormComps(comps, new_comps, initial_slashes) ==
    IF comps = <<>> THEN new_comps
    ELSE LET comp == Head(comps)
             n    == Len(new_comps)
         IN  IF comp = <<>> \/ comp = <<".">>
             THEN NormComps(Tail(comps), new_comps, initial_slashes)
             ELSE IF \/ comp # <<".", ".">>
                     \/ (initial_slashes = 0 /\ n = 0)
                     \/ (n > 0 /\ new_comps[n] = <<".", ".">>)
             THEN NormComps(Tail(comps), Append(new_comps, comp), initial_slashes)
             ELSE IF n > 0
             THEN NormComps(Tail(comps), SubSeq(new_comps, 1, n - 1), initial_slashes)
             ELSE NormComps(Tail(comps), new_comps, initial_slashes)

\* a normpath that returns its argument
NormPath_mut(path) == path

\* os.path.normpath(path), posix
NormPath(path) ==
    IF path = <<>> THEN <<".">>
    ELSE LET initial_slashes ==
                 IF ~StartsWith(path, <<"/">>) THEN 0
                 ELSE IF StartsWith(path, <<"/", "/">>) /\ ~StartsWith(path, <<"/", "/", "/">>)
                 THEN 2 ELSE 1
             joined == JoinSlash(NormComps(SplitSlash(path), <<>>, initial_slashes))
             out == IF initial_slashes = 2 THEN <<"/", "/">> \o joined
                    ELSE IF initial_slashes = 1 THEN <<"/">> \o joined
                    ELSE joined
         IN  IF out = <<>> THEN <<".">> ELSE out

(***************************************************************************)
(* Target key parser                                                       *)
(***************************************************************************)

\* `$` of _TARGET_RE also matches just before one trailing newline
BeforeDollar(dep) ==
    IF Len(dep) > 0 /\ dep[Len(dep)] = "\n" THEN SubSeq(dep, 1, Len(dep) - 1) ELSE dep

\* _TARGET_RE.match(dep): whether it matches, and the groups 'path' and 'name'
TARGET_RE_match(dep) ==
    LET body == BeforeDollar(dep)
        colons == {i \in 1..Len(body) : body[i] = ":"}
    IN  IF StartsWith(body, <<"#">>)
        THEN IF AllIn(DropFirst(body, 1), NameChars)
             THEN [matched |-> TRUE, path |-> <<"#">>, name |-> DropFirst(body, 1)]
             ELSE [matched |-> FALSE, path |-> <<>>, name |-> <<>>]
        ELSE IF Cardinality(colons) = 1
        THEN LET i == CHOOSE k \in colons : TRUE
             IN  IF AllIn(SubSeq(body, 1, i - 1), PathChars) /\ AllIn(DropFirst(body, i), NameChars)
                 THEN [matched |-> TRUE, path |-> SubSeq(body, 1, i), name |-> DropFirst(body, i)]
                 ELSE [matched |-> FALSE, path |-> <<>>, name |-> <<>>]
        ELSE [matched |-> FALSE, path |-> <<>>, name |-> <<>>]

\* str.rstrip(':')
RECURSIVE RStripColon(_)
RStripColon(s) ==
    IF Len(s) > 0 /\ s[Len(s)] = ":" THEN RStripColon(SubSeq(s, 1, Len(s) - 1)) ELSE s

\* _check_path(path): the list of messages
check_path(path) ==
    LET p == IF StartsWith(path, <<"/", "/">>) THEN DropFirst(path, 2) ELSE path
    IN  (IF StartsWith(p, <<"/">>) THEN <<"absolute path is not allowed">> ELSE <<>>)
        \o (IF Contains(p, <<".", ".">>) THEN <<"parent path \"..\" is not allowed">> ELSE <<>>)

\* the parser without the test of the name
parse_target_uncached_mut(dep) ==
    LET m == TARGET_RE_match(dep)
    IN  IF ~m.matched
        THEN [path |-> <<>>, name |-> <<>>, msgs |-> <<"format error">>]
        ELSE LET path == RStripColon(m.path)
                 msgs == check_path(path)
             IN  IF msgs # <<>>
                 THEN [path |-> <<>>, name |-> <<>>, msgs |-> msgs]
                 ELSE [path |-> IF path # <<>> THEN NormPath(path) ELSE path,
                       name |-> m.name, msgs |-> <<>>]

\* The body of _parse_target(dep) behind the cache: (path, name, msgs), with the
\* msgs of a valid dep (None in the code) the empty sequence.
parse_target_uncached(dep) ==
    LET m == TARGET_RE_match(dep)
    IN  IF ~m.matched
        THEN [path |-> <<>>, name |-> <<>>,
              msgs |-> IF CountChar(dep, ":") > 1
                       THEN <<"format error, missing \",\" between targets?">>
                       ELSE <<"format error">>]
        ELSE LET path == RStripColon(m.path)
                 msgs == check_path(path)
                         \o (IF m.name = <<>> THEN <<"empty name">> ELSE <<>>)
             IN  IF msgs # <<>>
                 THEN [path |-> <<>>, name |-> <<>>, msgs |-> msgs]
                 ELSE [path |-> IF path # <<>> THEN NormPath(path) ELSE path,
                       name |-> m.name, msgs |-> <<>>]

(***************************************************************************)
(* State                                                                   *)
(***************************************************************************)

VARIABLES
    target_database,   \* blade's registry: target key -> Target
    src_target_map,    \* Target.__src_target_map: full source path -> (fullname, allows duplicates)
    parse_cache,       \* _parse_target.cache: dep string -> result
    console_log,       \* the diagnostics printed so far, in order
    exited,            \* console.fatal has ended the process
    global_config,     \* config section 'global_config'
    location_result,   \* what the last _add_location_reference_target returned
    visibility_checked,\* history: target key -> what _match_visibility returned for each
                       \* of its deps when check_visibility ran on it
    build_code,        \* Target.__build_code of the generating target: None or a buffer
    next_buffer,       \* identity of the next list object `[]` creates
    generate_calls,    \* for each entry into generate(): the number of the accessor call it served
    stacks,            \* per thread: the frames of the calls in progress
    returned,          \* what get_build_code calls have returned
    calls_started,     \* how many accessor calls have begun
    parse_returned,    \* what the last _parse_target call was given and returned
    constructed,       \* history: the arguments of the last traced Target.__init__ and the
                       \* target it left
    clean_list,        \* Target.__clean_list of the generating target
    target_files,      \* Target.__targets of the generating target: the items of the dict
    default_target,    \* Target.__default_target of the generating target
    last_build,        \* the arguments of the last generate_build call and what it found
    file_returned,     \* what the last _get_target_file call was given and returned
    declared_outputs,  \* history: the (label, path) of the _add_target_file calls, in order
    raised             \* history: the methods an exception has left, in order

registryVars == <<target_database, src_target_map, parse_cache, console_log, exited,
                  global_config, location_result, visibility_checked, parse_returned,
                  constructed>>
outputVars == <<clean_list, target_files, default_target, last_build, file_returned,
                declared_outputs, raised>>
generateVars == <<build_code, next_buffer, generate_calls, stacks, returned, calls_started,
                  outputVars>>
vars == <<registryVars, generateVars>>

\* The sentinel string of a public visibility
PUBLIC == <<"P", "U", "B", "L", "I", "C">>

\* One printed diagnostic: console.<level>(self._format_message(...)) of target `t`
\* kind names the message, detail is its variable text, args its quoted strings.
Diag(level, t, kind, detail, args) ==
    [level |-> level, target |-> t.key, kind |-> kind, detail |-> detail, args |-> args]

\* An empty dict
EmptyMap == [x \in {} |-> x]

\* `x in list`
InSeq(x, list) == \E i \in 1..Len(list) : list[i] = x

(***************************************************************************)
(* target_pattern: the pattern matcher the visibility code calls           *)
(***************************************************************************)

\* target_pattern.is_valid_in_build(pattern)
is_valid_in_build(v) == StartsWith(v, <<"/", "/">>) \/ StartsWith(v, <<":">>)

\* target_pattern.normalize(pattern, working_dir): to dir:name, the directory
\* from the root of the workspace and normalised
pattern_normalize(v, dir) ==
    LET full == IF StartsWith(v, <<"/", "/">>) THEN DropFirst(v, 2) ELSE PathJoin(dir, v)
        colon == LastIndex(full, ":")
    IN  IF colon = 0 THEN NormPath(full) \o <<":", "*">>
        ELSE NormPath(SubSeq(full, 1, colon - 1)) \o DropFirst(full, colon - 1)

\* the directory of a key or pattern: the text before its ':'
KeyDir(k) ==
    IF \A i \in 1..Len(k) : k[i] # ":" THEN k
    ELSE SubSeq(k, 1, (CHOOSE i \in 1..Len(k) :
                           k[i] = ":" /\ \A j \in 1..(i - 1) : k[j] # ":") - 1)

\* target_pattern.match(target_id, pattern): exact key, or the wildcard dir:...
pattern_match(target_id, pattern) ==
    IF KeyDir(pattern) \o <<":", ".", ".", ".">> = pattern
    THEN \/ KeyDir(target_id) = KeyDir(pattern)
         \/ StartsWith(KeyDir(target_id), KeyDir(pattern) \o <<"/">>)
    ELSE target_id = pattern

(***************************************************************************)
(* Target construction: fields and visibility                              *)
(***************************************************************************)

\* The fields Target.__init__ assigns before its checks run.  allow_dup is the
\* subclass's _allow_duplicate_source().  Two history fields: added, the keys
\* the dependency operations have offered to deps, in order; visibility_arg,
\* the visibility argument the target was constructed with.
\* The entropy a target hashed, before fingerprint() has run
NotHashed ==
    [blade_revision |-> "", config |-> "", type |-> "", name |-> <<>>, srcs |-> <<>>,
     deps |-> <<>>, extra |-> <<>>]

NewTarget(name, type, srcs, current_source_path, allow_dup, cfg) ==
    [type |-> type,
     name |-> name,
     path |-> current_source_path,
     key |-> current_source_path \o <<":">> \o name,
     fullname |-> <<"/", "/">> \o current_source_path \o <<":">> \o name,
     srcs |-> srcs,
     deps |-> <<>>,
     implicit_deps |-> {},
     visibility |-> {},
     visibility_is_default |-> TRUE,
     attr |-> << <<"test_timeout", cfg.test_timeout>> >>,
     allow_dup |-> allow_dup,
     fingerprint |-> "None",
     hashed |-> NotHashed,
     hash_count |-> 0,
     registrations |-> 0,
     offered_valid |-> {},
     offered_implicit |-> {},
     added |-> <<>>,
     visibility_arg |-> [none |-> TRUE, list |-> <<>>]]

\* _init_visibility with a visibility list
init_visibility_explicit(t, list) ==
    IF \E i \in 1..Len(list) : list[i] = PUBLIC
    THEN [t EXCEPT !.visibility_is_default = FALSE,
                   !.visibility = t.visibility \cup {PUBLIC}]
    ELSE [t EXCEPT !.visibility_is_default = FALSE,
                   !.visibility = {pattern_normalize(list[i], t.path) :
                                      i \in {j \in 1..Len(list) : is_valid_in_build(list[j])}}]

\* the defaulting branch with the legacy-public lookup lost
init_visibility_default_mut(t, cfg) ==
    [t EXCEPT !.visibility = t.visibility \cup cfg.default_visibility]

\* _init_visibility with visibility None
init_visibility_default(t, cfg) ==
    IF t.key \in cfg.legacy_public_targets
    THEN [t EXCEPT !.visibility = t.visibility \cup {PUBLIC}]
    ELSE [t EXCEPT !.visibility = t.visibility \cup cfg.default_visibility]

\* _init_visibility(visibility); visibility is [none |-> BOOLEAN, list |-> patterns]
init_visibility(t, visibility, cfg) ==
    IF visibility.none
    THEN init_visibility_default([t EXCEPT !.visibility_arg = visibility], cfg)
    ELSE init_visibility_explicit([t EXCEPT !.visibility_arg = visibility], visibility.list)

\* SystemLibrary(name): Target.__init__ with no srcs, no deps, visibility
\* ['PUBLIC'] and no kwargs, then path, key and fullname overridden
SystemLibrary(name, current_source_path, cfg) ==
    LET t == init_visibility(
                 NewTarget(name, "system_library", <<>>, current_source_path, FALSE, cfg),
                 [none |-> FALSE, list |-> <<PUBLIC>>], cfg)
    IN  [t EXCEPT !.path = <<"#">>,
                  !.key = <<"#", ":">> \o name,
                  !.fullname = <<"/", "/", "#", ":">> \o name]

(***************************************************************************)
(* Dependency resolution.  The operators below thread a context            *)
(*   [t: the target `self`, db: target_database, log: console_log,         *)
(*    cache: _parse_target.cache, srcmap: Target.__src_target_map,         *)
(*    cfg: global_config, exited: console.fatal was called]                *)
(* through the statements of each method.                                  *)
(***************************************************************************)

\* F applied to the value of e, which is computed once (a local assignment)
Let(e, F(_)) == CHOOSE out \in {F(v) : v \in {e}} : TRUE

\* _parse_target(dep): the cached result, or the parsed one, which is cached
parse_target(ctx, dep) ==
    IF dep \in DOMAIN ctx.cache
    THEN [ctx |-> ctx, result |-> ctx.cache[dep]]
    ELSE Let(parse_target_uncached(dep), LAMBDA r :
             [ctx |-> [ctx EXCEPT !.cache = (dep :> r) @@ ctx.cache], result |-> r])

\* blade.register_target(target): the registry keeps one target per key
register_target(db, target) ==
    (target.key :> [target EXCEPT !.registrations =
                       1 + (IF target.key \in DOMAIN db THEN db[target.key].registrations ELSE 0)])
    @@ db

\* the registration of a system library without the test of the registry
add_system_library_mut(ctx, key, name) ==
    [ctx EXCEPT !.db = register_target(ctx.db, SystemLibrary(name, ctx.t.path, ctx.cfg))]

\* _add_system_library(key, name)
add_system_library(ctx, key, name) ==
    IF key \in DOMAIN ctx.db THEN ctx
    ELSE [ctx EXCEPT !.db = register_target(ctx.db, SystemLibrary(name, ctx.t.path, ctx.cfg))]

\* _unify_dep(dep): [ok |-> FALSE] stands for the None of an invalid dep
unify_dep(ctx, dep) ==
    Let(parse_target(ctx, dep), LAMBDA p :
    Let(p.result, LAMBDA r :
    Let(p.ctx, LAMBDA c :
        IF r.msgs # <<>>
        THEN [ctx |-> [c EXCEPT !.log = c.log \o
                           [i \in 1..Len(r.msgs) |->
                               Diag("error", c.t, "Invalid dependency", r.msgs[i], <<dep>>)]],
              ok |-> FALSE, key |-> <<>>]
        ELSE IF r.path = <<"#">>
        THEN [ctx |-> add_system_library(c, <<"#", ":">> \o r.name, r.name),
              ok |-> TRUE, key |-> <<"#", ":">> \o r.name]
        ELSE [ctx |-> c, ok |-> TRUE,
              key |-> (IF StartsWith(r.path, <<"/", "/">>) THEN DropFirst(r.path, 2)
                       ELSE IF r.path # <<>> THEN PathJoin(c.t.path, r.path)
                       ELSE c.t.path) \o <<":">> \o r.name])))

\* the append of _init_target_deps without its `not in self.deps` test
deps_append_declared_mut(t, dkey) ==
    [t EXCEPT !.deps = Append(@, dkey), !.added = Append(@, dkey)]

\* _init_target_deps: `if dkey not in self.deps: self.deps.append(dkey)`
deps_append_declared(t, dkey) ==
    [t EXCEPT !.deps = IF InSeq(dkey, @) THEN @ ELSE Append(@, dkey),
              !.added = Append(@, dkey)]

\* _init_target_deps(deps)
RECURSIVE init_target_deps(_, _)
init_target_deps(ctx, deps) ==
    IF deps = <<>> THEN ctx
    ELSE Let(unify_dep(ctx, Head(deps)), LAMBDA u :
         Let(IF u.ok THEN [u.ctx EXCEPT !.t = deps_append_declared(@, u.key)] ELSE u.ctx,
             LAMBDA c : init_target_deps(c, Tail(deps))))

\* the marking of a resolved key without the append to deps
deps_append_implicit_mut(t, dkey) ==
    [t EXCEPT !.implicit_deps = @ \cup {dkey},
              !.added = Append(@, dkey)]

\* _add_implicit_library: the append and the marking of one resolved key
deps_append_implicit(t, dkey) ==
    [t EXCEPT !.deps = IF InSeq(dkey, @) THEN @ ELSE Append(@, dkey),
              !.implicit_deps = @ \cup {dkey},
              !.added = Append(@, dkey)]

\* _add_implicit_library: `if not dep.startswith('//') and not dep.startswith('#')`
implicit_dep_string(d) ==
    IF ~StartsWith(d, <<"/", "/">>) /\ ~StartsWith(d, <<"#">>) THEN <<"/", "/">> \o d ELSE d

\* _add_implicit_library(implicit_deps): an invalid entry returns from the method
RECURSIVE add_implicit_library(_, _)
add_implicit_library(ctx, implicit_deps) ==
    IF implicit_deps = <<>> THEN ctx
    ELSE Let(unify_dep(ctx, implicit_dep_string(Head(implicit_deps))), LAMBDA u :
         IF ~u.ok THEN u.ctx
         ELSE Let(IF u.key[1] = "#"
                  THEN add_system_library(u.ctx, u.key, DropFirst(u.key, 2))
                  ELSE u.ctx, LAMBDA c :
              Let([c EXCEPT !.t = deps_append_implicit(@, u.key)], LAMBDA c2 :
                  add_implicit_library(c2, Tail(implicit_deps)))))

\* str.strip() of the type group, whose text is whitespace then word characters
RECURSIVE Strip(_)
Strip(s) ==
    IF Len(s) > 0 /\ s[1] \in {" ", "\t", "\n"} THEN Strip(Tail(s))
    ELSE IF Len(s) > 0 /\ s[Len(s)] \in {" ", "\t", "\n"} THEN Strip(SubSeq(s, 1, Len(s) - 1))
    ELSE s

\* _add_location_reference_target: the append of the referred key
deps_append_location(t, key) ==
    [t EXCEPT !.deps = IF InSeq(key, @) THEN @ ELSE Append(@, key),
              !.added = Append(@, key)]

\* _add_location_reference_target(m); m.groups() is (key, type), an absent
\* type group the empty string.  Returns (key, type).
add_location_reference_target(ctx, m) ==
    Let(unify_dep(ctx, m.key), LAMBDA u :
        [ctx |-> IF u.ok THEN [u.ctx EXCEPT !.t = deps_append_location(@, u.key)] ELSE u.ctx,
         ok |-> u.ok, key |-> u.key, type |-> Strip(m.type)])

(***************************************************************************)
(* Source checks                                                           *)
(***************************************************************************)

\* os.path.splitext(src)[1], posix: the extension with its dot, or ''
SplitExt(p) ==
    LET sepIndex == LastIndex(p, "/")
        dotIndex == LastIndex(p, ".")
    IN  IF dotIndex > sepIndex /\ \E i \in (sepIndex + 1)..(dotIndex - 1) : p[i] # "."
        THEN SubSeq(p, dotIndex, Len(p))
        ELSE <<>>

\* _is_likely_concatenated_filenames(string, exts):
\* re.search(r'\w+\.(exts).+\.(exts)$', string)
is_likely_concatenated_filenames(string, exts) ==
    LET s == BeforeDollar(string)
    IN  \E e1 \in exts, e2 \in exts :
          \E i \in 1..Len(s) :
            /\ s[i] \in WordChars
            /\ i + 1 <= Len(s) /\ s[i + 1] = "."
            /\ StartsWith(DropFirst(s, i + 1), e1)
            \* .+ : at least one character, none a newline, before the last '.ext'
            /\ Len(s) - (Len(e2) + 1) >= i + 1 + Len(e1) + 1
            /\ \A j \in (i + 2 + Len(e1))..(Len(s) - Len(e2) - 1) : s[j] # "\n"
            /\ DropFirst(s, Len(s) - Len(e2) - 1) = <<".">> \o e2

\* The files os.path.exists finds in the workspace
ExistingFiles == {<<"a", "/", "f", ".", "c">>, <<"b", "/", "f", ".", "c">>}

\* _check_sources: the diagnostics of one entry of the list
check_one_source(t, src, exts) ==
    LET ext0 == SplitExt(src)
        ext == IF ext0 # <<>> THEN DropFirst(ext0, 1) ELSE ext0
        full_path == NormPath(PathJoin(t.path, src))
    IN  (IF Contains(src, <<".", ".">>) \/ StartsWith(src, <<"/">>)
         THEN <<Diag("error", t, "Invalid source file path", "", <<src>>)>> ELSE <<>>)
        \o (IF exts # {} /\ ext \notin exts
            THEN <<Diag("error", t, "Invalid source file name", "", <<src>>)>> ELSE <<>>)
        \o (IF /\ exts # {}
               /\ full_path \notin ExistingFiles
               /\ ext # <<>>
               /\ is_likely_concatenated_filenames(src, exts)
            THEN <<Diag("warning", t, "File does not exist, missing \",\"", "", <<src>>)>>
            ELSE <<>>)

\* _check_sources: the loop over the files, collecting the repeated entries
RECURSIVE check_sources_loop(_, _, _, _, _)
check_sources_loop(t, files, exts, srcset, dups) ==
    IF files = <<>> THEN [log |-> <<>>, dups |-> dups]
    ELSE Let(check_sources_loop(t, Tail(files), exts, srcset \cup {Head(files)},
                                IF Head(files) \in srcset THEN Append(dups, Head(files))
                                ELSE dups), LAMBDA rest :
             [log |-> check_one_source(t, Head(files), exts) \o rest.log, dups |-> rest.dups])

\* _check_sources('source', files, exts): the diagnostics it prints
check_sources(t, files, exts) ==
    Let(check_sources_loop(t, files, exts, {}, <<>>), LAMBDA r :
        r.log \o (IF r.dups # <<>>
                  THEN <<Diag("error", t, "Duplicate source file paths", "", r.dups)>>
                  ELSE <<>>))

\* the duplicate-source policy with every configured action printed as a warning
duplicated_source_diag_mut(ctx, src, target_existed) ==
    IF ctx.cfg.duplicated_source_action \in {"error", "warning"}
    THEN <<Diag("warning", ctx.t, "already in srcs", "", <<src, target_existed.fullname>>)>>
    ELSE <<>>

\* the duplicate-source policy: the configured diagnostic, or none
duplicated_source_diag(ctx, src, target_existed) ==
    IF ctx.cfg.duplicated_source_action = "error"
    THEN <<Diag("error", ctx.t, "already in srcs", "", <<src, target_existed.fullname>>)>>
    ELSE IF ctx.cfg.duplicated_source_action = "warning"
    THEN <<Diag("warning", ctx.t, "already in srcs", "", <<src, target_existed.fullname>>)>>
    ELSE <<>>

\* the claim of a source with the last claimant always recorded
claim_source_mut(ctx, src, full_src, target) ==
    IF full_src \notin DOMAIN ctx.srcmap
    THEN [ctx EXCEPT !.srcmap = (full_src :> target) @@ @]
    ELSE [ctx EXCEPT !.srcmap = [@ EXCEPT ![full_src] = target]]

\* _check_srcs: one source of the loop claims full_src for `target`
claim_source(ctx, src, full_src, target) ==
    IF full_src \notin DOMAIN ctx.srcmap
    THEN [ctx EXCEPT !.srcmap = (full_src :> target) @@ @]
    ELSE Let(ctx.srcmap[full_src], LAMBDA target_existed :
             IF target_existed = target THEN ctx
             ELSE IF target_existed.allow
             THEN [ctx EXCEPT !.srcmap = [@ EXCEPT ![full_src] = target]]
             ELSE IF target.allow THEN ctx
             ELSE [ctx EXCEPT !.log = @ \o duplicated_source_diag(ctx, src, target_existed)])

\* _check_srcs: the loop over self.srcs
RECURSIVE check_srcs_loop(_, _)
check_srcs_loop(ctx, srcs) ==
    IF srcs = <<>> THEN ctx
    ELSE Let(NormPath(PathJoin(ctx.t.path, Head(srcs))), LAMBDA full_src :
         Let(claim_source(ctx, Head(srcs), full_src,
                          [fullname |-> ctx.t.fullname, allow |-> ctx.t.allow_dup]),
             LAMBDA c : check_srcs_loop(c, Tail(srcs))))

\* _check_srcs(src_exts)
check_srcs(ctx, src_exts) ==
    Let([ctx EXCEPT !.log = @ \o check_sources(ctx.t, ctx.t.srcs, src_exts)], LAMBDA c :
        check_srcs_loop(c, c.t.srcs))

(***************************************************************************)
(* Target.__init__                                                         *)
(***************************************************************************)

\* _check_name()
check_name(ctx) ==
    IF InSeq("/", ctx.t.name)
    THEN [ctx EXCEPT !.log = Append(@, Diag("error", ctx.t, "Invalid target name", "", <<>>))]
    ELSE ctx

\* _check_kwargs silent about the leftover options
check_kwargs_mut(ctx, kwargs) == ctx

\* _check_kwargs(kwargs); kwargs is the sequence of the leftover option names
check_kwargs(ctx, kwargs) ==
    IF kwargs # <<>>
    THEN [ctx EXCEPT !.log = Append(@, Diag("error", ctx.t, "Unrecognized options", "", kwargs))]
    ELSE ctx

\* Target.__init__: args is [name, type, srcs, src_exts, deps, visibility, kwargs],
\* allow_dup the subclass's _allow_duplicate_source(), current_source_path
\* blade.get_current_source_path().  ctx.t is the constructed target.
target_init(ctx0, args, allow_dup, current_source_path) ==
    Let([ctx0 EXCEPT !.t = NewTarget(args.name, args.type, args.srcs, current_source_path,
                                     allow_dup, ctx0.cfg)], LAMBDA c0 :
        IF args.name = <<>>
        THEN [c0 EXCEPT !.log = Append(@, Diag("fatal", c0.t, "Missing \"name\"", "", <<>>)),
                        !.exited = TRUE]
        ELSE Let(check_name(c0), LAMBDA c1 :
             Let(check_kwargs(c1, args.kwargs), LAMBDA c2 :
             Let(check_srcs(c2, args.src_exts), LAMBDA c3 :
             Let(init_target_deps(c3, args.deps), LAMBDA c4 :
                 [c4 EXCEPT !.t = init_visibility(@, args.visibility, c4.cfg)])))))

(***************************************************************************)
(* Operations on the registry                                              *)
(***************************************************************************)

\* The context of a method call on target t in the current state
Context(t) ==
    [t |-> t, db |-> target_database, log |-> console_log, cache |-> parse_cache,
     srcmap |-> src_target_map, cfg |-> global_config, exited |-> FALSE]

\* The state a finished call leaves
Commit(c) ==
    /\ target_database' = c.db
    /\ src_target_map' = c.srcmap
    /\ parse_cache' = c.cache
    /\ console_log' = c.log
    /\ exited' = c.exited
    /\ UNCHANGED global_config

\* The same, with the target `self` stored back under its key
CommitTarget(k, c) == Commit([c EXCEPT !.db = [c.db EXCEPT ![k] = c.t]])

NoLocationResult == [ok |-> FALSE, key |-> <<>>, type |-> <<>>]

\* A BUILD rule declares a target: Target.__init__, then blade.register_target,
\* which is fatal for a key the registry already holds.
DeclareTarget(args, allow_dup, current_source_path) ==
    /\ ~exited
    /\ \E c \in {target_init(Context(NewTarget(<<>>, "", <<>>, <<>>, FALSE, global_config)),
                             args, allow_dup, current_source_path)} :
           IF c.exited THEN Commit(c)
           ELSE IF c.t.key \in DOMAIN c.db
           THEN Commit([c EXCEPT !.log = Append(@, Diag("fatal", c.t, "Target is duplicate", "", <<>>)),
                                 !.exited = TRUE])
           ELSE Commit([c EXCEPT !.db = register_target(@, c.t)])
    /\ UNCHANGED <<location_result, visibility_checked, parse_returned, constructed>>

\* History: the keys _unify_dep gives target t for the valid entries of a list
ValidKeys(t, deps) ==
    {u.key : u \in {v \in {unify_dep(Context(t), deps[i]) : i \in 1..Len(deps)} : v.ok}}

\* self._init_target_deps(deps) on the registered target k
CallInitTargetDeps(k, deps) ==
    /\ ~exited
    /\ \E c \in {init_target_deps(Context(target_database[k]), deps)} :
           CommitTarget(k, [c EXCEPT !.t.offered_valid =
                                        @ \cup ValidKeys(target_database[k], deps)])
    /\ UNCHANGED <<location_result, visibility_checked, parse_returned, constructed>>

\* self._add_implicit_library(implicit_deps) on the registered target k
CallAddImplicitLibrary(k, implicit_deps) ==
    /\ ~exited
    /\ \E c \in {add_implicit_library(Context(target_database[k]), implicit_deps)} :
           \E valid \in {ValidKeys(target_database[k],
                                   [i \in 1..Len(implicit_deps) |->
                                       implicit_dep_string(implicit_deps[i])])} :
              CommitTarget(k, [c EXCEPT !.t.offered_valid = @ \cup valid,
                                        !.t.offered_implicit = @ \cup valid])
    /\ UNCHANGED <<location_result, visibility_checked, parse_returned, constructed>>

\* self._add_location_reference_target(m) on the registered target k
CallAddLocationReferenceTarget(k, m) ==
    /\ ~exited
    /\ \E r \in {add_location_reference_target(Context(target_database[k]), m)} :
           /\ CommitTarget(k, r.ctx)
           /\ location_result' = [ok |-> r.ok, key |-> r.key, type |-> r.type]
    /\ UNCHANGED <<visibility_checked, parse_returned, constructed>>

(***************************************************************************)
(* The build-code buffer: state of the target that generates               *)
(***************************************************************************)

\* The threads that may call into the generating target
Threads == {1, 2}

\* Most accessor calls made, from outside the target or from its generate()
MaxCalls == 3

\* Deepest nesting of calls on one thread
MaxDepth == 5

\* Most statements generate() writes
MaxRules == 1

\* Target.__build_code = None
NoBuildCode == [none |-> TRUE, id |-> 0, rules |-> <<>>]

\* No generate_build call yet
NoBuild ==
    [called |-> FALSE, rule |-> "", outputs |-> <<>>, inputs |-> <<>>, implicit_deps |-> <<>>,
     order_only_deps |-> <<>>, variables |-> <<>>, implicit_outputs |-> <<>>,
     clean |-> [none |-> TRUE, list |-> <<>>],
     code_before |-> <<>>, clean_before |-> <<>>]

\* No _get_target_file call yet
NoFile == [called |-> FALSE, label |-> "", result |-> "", count |-> 0]

\* __init__: self.__targets = {}, self.__default_target = '', self.__clean_list = []
OutputIdle ==
    /\ clean_list = <<>>
    /\ target_files = <<>>
    /\ default_target = ""
    /\ last_build = NoBuild
    /\ file_returned = NoFile
    /\ declared_outputs = <<>>
    /\ raised = <<>>

\* No _parse_target call yet
NoParse ==
    [op |-> "", dep |-> <<>>, from_cache |-> FALSE,
     result |-> [path |-> <<>>, name |-> <<>>, msgs |-> <<>>],
     self_path |-> <<>>, ok |-> FALSE, key |-> <<>>]

GenerateIdle ==
    /\ build_code = NoBuildCode
    /\ next_buffer = 1
    /\ generate_calls = <<>>
    /\ stacks = [th \in Threads |-> <<>>]
    /\ returned = <<>>
    /\ calls_started = 0
    /\ OutputIdle

\* No construction traced yet
NoConstructed ==
    [count |-> 0,
     args |-> [name |-> <<>>, type |-> "", srcs |-> <<>>, src_exts |-> {}, deps |-> <<>>,
               visibility |-> [none |-> TRUE, list |-> <<>>], kwargs |-> <<>>],
     t |-> NewTarget(<<>>, "", <<>>, <<>>, FALSE,
                     [test_timeout |-> "", default_visibility |-> {},
                      legacy_public_targets |-> {}, duplicated_source_action |-> ""])]

RegistryIdle ==
    /\ target_database = EmptyMap
    /\ src_target_map = EmptyMap
    /\ parse_cache = EmptyMap
    /\ console_log = <<>>
    /\ exited = FALSE
    /\ location_result = NoLocationResult
    /\ visibility_checked = EmptyMap
    /\ parse_returned = NoParse
    /\ constructed = NoConstructed

(***************************************************************************)
(* Inputs                                                                   *)
(***************************************************************************)

\* All sequences over S of length at most n
SeqsUpTo(S, n) == UNION {[1..k -> S] : k \in 0..n}

\* Longest list of dependencies one call is given
MaxDepList == 2

\* Most keys the dependency operations offer to one target's deps
MaxOffered == 3

\* Most diagnostics printed in one run
MaxLog == 2

NoVisibility == [none |-> TRUE, list |-> <<>>]

\* The arguments of a declaration with no sources, options or visibility
PlainArgs(name, deps) ==
    [name |-> name, type |-> "cc_library", srcs |-> <<>>, src_exts |-> {}, deps |-> deps,
     visibility |-> NoVisibility, kwargs |-> <<>>]

DefaultConfig ==
    [duplicated_source_action |-> "warning", legacy_public_targets |-> {},
     default_visibility |-> {}, test_timeout |-> "300"]

\* Dependency strings as BUILD files write them: absolute, same directory,
\* relative, unnormalised, system library, and two malformed ones
DepStrings ==
    {<<"/", "/", "a", ":", "t">>,
     <<":", "t">>,
     <<"/", "/", "a", "/", ".", "/", ":", "t">>,
     <<"b", ":", "u">>,
     <<"#", "z">>,
     <<"a", ":", "b", ":", "c">>}

\* Implicit libraries, which the tool writes without the leading //
ImplicitStrings ==
    {<<"a", ":", "t">>, <<"a", "/", "b", ":", "u">>, <<"#", "z">>, <<"a", ":">>}

\* The groups of matches of LOCATION_RE
LocationMatches ==
    {[key |-> <<"/", "/", "a", ":", "t">>, type |-> <<>>],
     [key |-> <<":", "t">>, type |-> <<" ", "j", "a", "r">>],
     [key |-> <<"b", ":", "u">>, type |-> <<>>],
     [key |-> <<"/", "a", ":", "t">>, type |-> <<>>]}

(***************************************************************************)
(* Specification of dependency resolution: one target is declared in       *)
(* directory a, then dependencies are added to it by the three operations. *)
(***************************************************************************)

InitDeps ==
    /\ RegistryIdle
    /\ global_config = DefaultConfig
    /\ GenerateIdle

\* The declared target of this specification
DepsTargetKey == <<"a", ":", "x">>

DepsBudget(k, n) ==
    /\ k \in DOMAIN target_database
    /\ Len(target_database[k].added) + n <= MaxOffered
    /\ Len(console_log) < MaxLog

DepsDeclare ==
    /\ target_database = EmptyMap
    /\ \E deps \in SeqsUpTo(DepStrings, MaxDepList) :
          DeclareTarget(PlainArgs(<<"x">>, deps), FALSE, <<"a">>)
    /\ UNCHANGED generateVars

DepsInitTargetDeps ==
    /\ \E deps \in SeqsUpTo(DepStrings, MaxDepList) :
          /\ DepsBudget(DepsTargetKey, Len(deps))
          /\ CallInitTargetDeps(DepsTargetKey, deps)
    /\ UNCHANGED generateVars

DepsAddImplicitLibrary ==
    /\ \E deps \in SeqsUpTo(ImplicitStrings, MaxDepList) :
          /\ DepsBudget(DepsTargetKey, Len(deps))
          /\ CallAddImplicitLibrary(DepsTargetKey, deps)
    /\ UNCHANGED generateVars

DepsAddLocationReferenceTarget ==
    /\ \E m \in LocationMatches :
          /\ DepsBudget(DepsTargetKey, 1)
          /\ CallAddLocationReferenceTarget(DepsTargetKey, m)
    /\ UNCHANGED generateVars

NextDeps ==
    \/ DepsDeclare
    \/ DepsInitTargetDeps
    \/ DepsAddImplicitLibrary
    \/ DepsAddLocationReferenceTarget

SpecDeps == InitDeps /\ [][NextDeps]_vars

\* The first occurrences of the entries of a sequence, in order
RECURSIVE FirstSeen(_, _)
FirstSeen(seq, acc) ==
    IF seq = <<>> THEN acc
    ELSE FirstSeen(Tail(seq), IF InSeq(Head(seq), acc) THEN acc ELSE Append(acc, Head(seq)))

\* C3: whatever sequence of _init_target_deps, _add_implicit_library and
\* _add_location_reference_target calls a target has seen, its deps holds each
\* resolved key once, in the order in which the keys were first added.
C3_DepsDedupFirstSeen ==
    \A k \in DOMAIN target_database :
        target_database[k].deps = FirstSeen(target_database[k].added, <<>>)

\* C3 witness: a key was offered again (by a differently written string or a
\* later call) to a target that already holds two dependencies.
C3_Witness ==
    \E k \in DOMAIN target_database :
        /\ Len(target_database[k].deps) >= 2
        /\ Len(target_database[k].added) > Len(target_database[k].deps)

(***************************************************************************)
(* The lazily generated build code.  A frame is one call in progress on a  *)
(* thread: [fn, pc]; the top of a thread's stack is its last frame.        *)
(***************************************************************************)

\* The accessors that ensure the build code was generated
Accessors == {"get_build_code", "_get_target_file", "_get_target_files"}

Top(th) == stacks[th][Len(stacks[th])]

Push(th, frame) == stacks' = [stacks EXCEPT ![th] = Append(@, frame)]

Pop(th) == stacks' = [stacks EXCEPT ![th] = SubSeq(@, 1, Len(@) - 1)]

SetPc(th, pc) == stacks' = [stacks EXCEPT ![th][Len(stacks[th])].pc = pc]

\* set the pc of the top frame and push a callee's frame above it
CallFrom(th, pc, frame) ==
    stacks' = [stacks EXCEPT ![th] = Append([@ EXCEPT ![Len(@)].pc = pc], frame)]

\* how many generate() calls are running, on any thread
Generating ==
    Cardinality({<<th, i>> \in Threads \X (1..MaxDepth) :
                    i <= Len(stacks[th]) /\ stacks[th][i].fn = "generate"})

\* a test of the cache that always finds it empty
build_code_is_none_mut == TRUE

\* get_build_code: `if self.__build_code is None`
build_code_is_none == build_code.none

\* A caller outside the target calls one of the accessors on thread th
CallAccessor(th, fn) ==
    /\ stacks[th] = <<>>
    /\ calls_started < MaxCalls
    /\ calls_started' = calls_started + 1
    /\ Push(th, [fn |-> fn, pc |-> "test"])
    /\ UNCHANGED <<build_code, next_buffer, generate_calls, returned, registryVars,
                 outputVars>>

\* _get_target_file / _get_target_files: `self.get_build_code()`
AccessorEnsure(th) ==
    /\ stacks[th] # <<>>
    /\ Top(th).fn \in {"_get_target_file", "_get_target_files"}
    /\ Top(th).pc = "test"
    /\ CallFrom(th, "return", [fn |-> "get_build_code", pc |-> "test"])
    /\ UNCHANGED <<build_code, next_buffer, generate_calls, returned, calls_started, registryVars,
                 outputVars>>

\* _get_target_file / _get_target_files: return the recorded paths
AccessorReturn(th) ==
    /\ stacks[th] # <<>>
    /\ Top(th).fn \in {"_get_target_file", "_get_target_files"}
    /\ Top(th).pc = "return"
    /\ Pop(th)
    /\ UNCHANGED <<build_code, next_buffer, generate_calls, returned, calls_started, registryVars,
                 outputVars>>

\* get_build_code: the test of the cache
GetBuildCodeTest(th) ==
    /\ stacks[th] # <<>>
    /\ Top(th).fn = "get_build_code"
    /\ Top(th).pc = "test"
    /\ SetPc(th, IF build_code_is_none THEN "assign" ELSE "return")
    /\ UNCHANGED <<build_code, next_buffer, generate_calls, returned, calls_started, registryVars,
                 outputVars>>

\* get_build_code: `self.__build_code = []`, a new list object
GetBuildCodeAssign(th) ==
    /\ stacks[th] # <<>>
    /\ Top(th).fn = "get_build_code"
    /\ Top(th).pc = "assign"
    /\ build_code' = [none |-> FALSE, id |-> next_buffer, rules |-> <<>>]
    /\ next_buffer' = next_buffer + 1
    /\ SetPc(th, "generate")
    /\ UNCHANGED <<generate_calls, returned, calls_started, registryVars,
                 outputVars>>

\* get_build_code: `self.generate()`
GetBuildCodeGenerate(th) ==
    /\ stacks[th] # <<>>
    /\ Top(th).fn = "get_build_code"
    /\ Top(th).pc = "generate"
    /\ Len(stacks[th]) < MaxDepth
    /\ generate_calls' = Append(generate_calls, calls_started)
    /\ CallFrom(th, "return", [fn |-> "generate", pc |-> "body"])
    /\ UNCHANGED <<build_code, next_buffer, returned, calls_started, registryVars,
                 outputVars>>

\* get_build_code: `return self.__build_code`; the caller observes the list
\* object of that moment, at this depth, with this many generate() running
GetBuildCodeReturn(th) ==
    /\ stacks[th] # <<>>
    /\ Top(th).fn = "get_build_code"
    /\ Top(th).pc = "return"
    /\ returned' = Append(returned, [id |-> build_code.id, thread |-> th,
                                     depth |-> Len(stacks[th]), generating |-> Generating,
                                     rules |-> build_code.rules])
    /\ Pop(th)
    /\ UNCHANGED <<build_code, next_buffer, generate_calls, calls_started, registryVars,
                 outputVars>>

\* generate() of a subclass writes a statement: _write_rule appends to the
\* list self.__build_code names at that moment
GenerateWriteRule(th) ==
    /\ stacks[th] # <<>>
    /\ Top(th).fn = "generate"
    /\ ~build_code.none
    /\ Len(build_code.rules) < MaxRules
    /\ build_code' = [build_code EXCEPT !.rules = Append(@, "build")]
    /\ UNCHANGED <<next_buffer, generate_calls, stacks, returned, calls_started, registryVars,
                 outputVars>>

\* generate() of a subclass calls an accessor of its own target
GenerateCallAccessor(th, fn) ==
    /\ stacks[th] # <<>>
    /\ Top(th).fn = "generate"
    /\ Len(stacks[th]) + 2 < MaxDepth
    /\ calls_started < MaxCalls
    /\ calls_started' = calls_started + 1
    /\ Push(th, [fn |-> fn, pc |-> "test"])
    /\ UNCHANGED <<build_code, next_buffer, generate_calls, returned, registryVars,
                 outputVars>>

\* generate() returns
GenerateReturn(th) ==
    /\ stacks[th] # <<>>
    /\ Top(th).fn = "generate"
    /\ Pop(th)
    /\ UNCHANGED <<build_code, next_buffer, generate_calls, returned, calls_started, registryVars,
                 outputVars>>

\* generate() raises and the buffer is put back to None
GenerateRaise_mut(th) ==
    /\ stacks[th] # <<>>
    /\ Top(th).fn = "generate"
    /\ stacks' = [stacks EXCEPT ![th] = <<>>]
    /\ raised' = Append(raised, "generate")
    /\ build_code' = NoBuildCode
    /\ UNCHANGED <<next_buffer, generate_calls, returned, calls_started, registryVars,
                   clean_list, target_files, default_target, last_build, file_returned,
                   declared_outputs>>

\* generate() raises (Target.generate itself raises NotImplementedError): no
\* caller catches it, the thread's calls all end
GenerateRaise(th) ==
    /\ stacks[th] # <<>>
    /\ Top(th).fn = "generate"
    /\ stacks' = [stacks EXCEPT ![th] = <<>>]
    /\ raised' = Append(raised, "generate")
    /\ UNCHANGED <<build_code, next_buffer, generate_calls, returned, calls_started, registryVars,
                   clean_list, target_files, default_target, last_build, file_returned,
                   declared_outputs>>

\* Target.before_generate() called from outside on thread th: the assertion
\* that the buffer is still unset, then the hook _before_generate, a no-op
CallBeforeGenerate(th) ==
    /\ stacks[th] = <<>>
    /\ calls_started < MaxCalls
    /\ calls_started' = calls_started + 1
    /\ raised' = IF build_code_is_none THEN raised ELSE Append(raised, "before_generate")
    /\ UNCHANGED <<build_code, next_buffer, generate_calls, stacks, returned, registryVars,
                   clean_list, target_files, default_target, last_build, file_returned,
                   declared_outputs>>

InitGenerate ==
    /\ RegistryIdle
    /\ global_config = DefaultConfig
    /\ GenerateIdle

\* One thread of control: every call is made on thread 1
NextGenerate ==
    \/ \E fn \in Accessors : CallAccessor(1, fn)
    \/ AccessorEnsure(1)
    \/ AccessorReturn(1)
    \/ GetBuildCodeTest(1)
    \/ GetBuildCodeAssign(1)
    \/ GetBuildCodeGenerate(1)
    \/ GetBuildCodeReturn(1)
    \/ GenerateWriteRule(1)
    \/ \E fn \in Accessors : GenerateCallAccessor(1, fn)
    \/ GenerateReturn(1)
    \/ GenerateRaise(1)

SpecGenerate == InitGenerate /\ [][NextGenerate]_vars

\* The threads' steps interleave freely
NextGenerateConcurrent ==
    \/ \E th \in Threads, fn \in Accessors : CallAccessor(th, fn)
    \/ \E th \in Threads : AccessorEnsure(th)
    \/ \E th \in Threads : AccessorReturn(th)
    \/ \E th \in Threads : GetBuildCodeTest(th)
    \/ \E th \in Threads : GetBuildCodeAssign(th)
    \/ \E th \in Threads : GetBuildCodeGenerate(th)
    \/ \E th \in Threads : GetBuildCodeReturn(th)
    \/ \E th \in Threads : GenerateWriteRule(th)
    \/ \E th \in Threads, fn \in Accessors : GenerateCallAccessor(th, fn)
    \/ \E th \in Threads : GenerateReturn(th)
    \/ \E th \in Threads : GenerateRaise(th)

SpecGenerateConcurrent == InitGenerate /\ [][NextGenerateConcurrent]_vars

\* C1: on one thread, whatever accessors are called and however generate()
\* calls back into them, generate() is entered at most once, during the first
\* accessor call, and every get_build_code returns the one list object made then.
C1_GenerateOnceSingleThread ==
    /\ generate_calls \in {<<>>, <<1>>}
    /\ returned # <<>> => generate_calls = <<1>>
    /\ \A i \in 1..Len(returned) : returned[i].id = 1 /\ build_code.id = 1

\* C1 witness: get_build_code has returned re-entrantly inside generate(), and
\* again to a later outside call after generate() had written a statement.
C1_Witness ==
    /\ \E i \in 1..Len(returned) : returned[i].generating = 1 /\ returned[i].depth > 1
    /\ \E i \in 1..Len(returned) : returned[i].generating = 0 /\ returned[i].rules # <<>>
    /\ calls_started >= 2

\* C2: under any interleaving of two threads' first calls, generate() is
\* entered exactly once and every caller is returned the same list object,
\* fully populated (no generate() still running, none of its statements lost).
C2_GenerateOnceConcurrent ==
    /\ Len(generate_calls) <= 1
    /\ \A i \in 1..Len(returned) :
          /\ returned[i].id = returned[1].id
          /\ returned[i].depth = 1 => returned[i].generating = 0

(***************************************************************************)
(* Visibility                                                              *)
(***************************************************************************)

\* _match_visibility without the same-directory rule
match_visibility_mut(self, dep) ==
    \/ PUBLIC \in dep.visibility
    \/ self.key \in dep.visibility
    \/ \E pattern \in dep.visibility : pattern_match(self.key, pattern)

\* _match_visibility(dep): whether self may depend on dep
match_visibility(self, dep) ==
    IF self.path = dep.path THEN TRUE
    ELSE IF PUBLIC \in dep.visibility THEN TRUE
    ELSE IF self.key \in dep.visibility THEN TRUE
    ELSE \E pattern \in dep.visibility : pattern_match(self.key, pattern)

\* check_visibility with the two follow-up messages exchanged
visibility_diags_mut(self, dep_id, dep) ==
    <<Diag("error", self, "Not allowed to depend on", "", <<dep_id>>),
      Diag("info", dep, IF dep.visibility_is_default THEN "which is declared here"
                        ELSE "No explicit visibility, defaults to private", "", <<>>)>>

\* check_visibility: what is printed for a dep that fails the match
visibility_diags(self, dep_id, dep) ==
    <<Diag("error", self, "Not allowed to depend on", "", <<dep_id>>),
      Diag("info", dep, IF dep.visibility_is_default
                        THEN "No explicit visibility, defaults to private"
                        ELSE "which is declared here", "", <<>>)>>

\* check_visibility(): the loop over self.deps; results is the history of what
\* _match_visibility returned for each dep
RECURSIVE check_visibility(_, _, _)
check_visibility(self, db, deps) ==
    IF deps = <<>> THEN [log |-> <<>>, results |-> <<>>]
    ELSE Let(check_visibility(self, db, Tail(deps)), LAMBDA rest :
         Let(match_visibility(self, db[Head(deps)]), LAMBDA ok :
             [log |-> (IF ok THEN <<>> ELSE visibility_diags(self, Head(deps), db[Head(deps)]))
                      \o rest.log,
              results |-> <<[dep |-> Head(deps), result |-> ok]>> \o rest.results]))

\* self.check_visibility() on the registered target k, once every target is
\* loaded (the lookup of a dep that is not registered raises KeyError)
CallCheckVisibility(k) ==
    /\ ~exited
    /\ k \in DOMAIN target_database
    /\ k \notin DOMAIN visibility_checked
    /\ \A i \in 1..Len(target_database[k].deps) :
          target_database[k].deps[i] \in DOMAIN target_database
    /\ \E r \in {check_visibility(target_database[k], target_database, target_database[k].deps)} :
          /\ console_log' = console_log \o r.log
          /\ visibility_checked' = (k :> r.results) @@ visibility_checked
    /\ UNCHANGED <<target_database, src_target_map, parse_cache, exited, global_config,
                   location_result, parse_returned, constructed>>

(***************************************************************************)
(* Specification of visibility: targets of directories a and b are         *)
(* declared with every kind of visibility, then checked.                   *)
(***************************************************************************)

\* The configurations of legacy_public_targets and default_visibility
VisibilityConfigs ==
    {DefaultConfig,
     [DefaultConfig EXCEPT !.legacy_public_targets = {<<"a", ":", "u">>}],
     [DefaultConfig EXCEPT !.default_visibility = {<<"b", ":", "u">>}]}

\* The visibility arguments: none, empty, public, an exact key, a directory
\* wildcard, and a pattern that is not valid in a BUILD file
VisibilityArgs ==
    {NoVisibility,
     [none |-> FALSE, list |-> <<>>],
     [none |-> FALSE, list |-> <<PUBLIC>>],
     [none |-> FALSE, list |-> << <<"/", "/", "b", ":", "u">> >>],
     [none |-> FALSE, list |-> << <<"/", "/", "b", "/", ":", ".", ".", ".">> >>],
     [none |-> FALSE, list |-> << <<"b", ":", "u">> >>]}

\* The declarations: (directory, name)
VisibilityTargets == {<<<<"a">>, <<"t">>>>, <<<<"a">>, <<"u">>>>, <<<<"b">>, <<"u">>>>}

\* The deps of a declaration: none, or all three targets
VisibilityDeps ==
    {<<>>,
     << <<"/", "/", "a", ":", "t">>, <<"/", "/", "a", ":", "u">>, <<"/", "/", "b", ":", "u">> >>}

InitVisibility ==
    /\ RegistryIdle
    /\ global_config \in VisibilityConfigs
    /\ GenerateIdle

VisibilityDeclare ==
    /\ \E dn \in VisibilityTargets, deps \in VisibilityDeps, v \in VisibilityArgs :
          /\ dn[1] \o <<":">> \o dn[2] \notin DOMAIN target_database
          /\ DeclareTarget([PlainArgs(dn[2], deps) EXCEPT !.visibility = v], FALSE, dn[1])
    /\ UNCHANGED generateVars

VisibilityCheck ==
    /\ \E k \in DOMAIN target_database : CallCheckVisibility(k)
    /\ UNCHANGED generateVars

NextVisibility ==
    \/ VisibilityDeclare
    \/ VisibilityCheck

SpecVisibility == InitVisibility /\ [][NextVisibility]_vars

\* The rule of the visibility model: same directory, or public, or the
\* requester's key listed, or a listed pattern matching the requester's key
MayDepend(R, D) ==
    \/ R.path = D.path
    \/ PUBLIC \in D.visibility
    \/ R.key \in D.visibility
    \/ \E pattern \in D.visibility : pattern_match(R.key, pattern)

\* C4: for every requester R and dependency D that check_visibility has
\* matched, _match_visibility returned true exactly when R and D share a
\* directory, or D is public, or D lists R's key, or a pattern of D matches it.
C4_MatchVisibility ==
    \A k \in DOMAIN visibility_checked :
        \A i \in 1..Len(visibility_checked[k]) :
            visibility_checked[k][i].result =
                MayDepend(target_database[k], target_database[visibility_checked[k][i].dep])

\* C4 witness: a target was allowed a dep of its own directory that declares an
\* empty visibility and was refused one of another directory, and another
\* target was allowed a dep of another directory by a wildcard pattern.
C4_Witness ==
    /\ \E k \in DOMAIN visibility_checked :
          /\ \E i \in 1..Len(visibility_checked[k]) :
                LET D == target_database[visibility_checked[k][i].dep]
                IN  /\ D.key # k /\ D.path = target_database[k].path
                    /\ D.visibility = {} /\ ~D.visibility_is_default
                    /\ visibility_checked[k][i].result
          /\ \E i \in 1..Len(visibility_checked[k]) : ~visibility_checked[k][i].result
    /\ \E k \in DOMAIN visibility_checked :
          \E i \in 1..Len(visibility_checked[k]) :
             LET D == target_database[visibility_checked[k][i].dep]
             IN  /\ D.path # target_database[k].path
                 /\ PUBLIC \notin D.visibility /\ k \notin D.visibility
                 /\ visibility_checked[k][i].result

C6_DefaultVisibility ==
    \A k \in DOMAIN target_database :
        LET t == target_database[k]
        IN  /\ t.visibility_arg.none =>
                  /\ t.visibility_is_default
                  /\ t.visibility = IF t.key \in global_config.legacy_public_targets
                                    THEN {PUBLIC} ELSE global_config.default_visibility
            /\ ~t.visibility_arg.none => ~t.visibility_is_default
            /\ ( /\ t.visibility_arg.none
                 /\ global_config.default_visibility = {}
                 /\ t.key \notin global_config.legacy_public_targets )
               => \A r \in DOMAIN visibility_checked :
                     \A i \in 1..Len(visibility_checked[r]) :
                        ( /\ visibility_checked[r][i].dep = k
                          /\ target_database[r].path # t.path )
                        => ~visibility_checked[r][i].result

\* C6 witness: a legacy public target and a private one were both constructed
\* without a visibility, and a target of another directory was refused the
\* private one.
C6_Witness ==
    /\ \E k \in DOMAIN target_database :
          /\ target_database[k].visibility_arg.none
          /\ k \in global_config.legacy_public_targets
    /\ \E k \in DOMAIN target_database, r \in DOMAIN visibility_checked :
          /\ target_database[k].visibility_arg.none
          /\ target_database[k].visibility = {}
          /\ target_database[r].path # target_database[k].path
          /\ \E i \in 1..Len(visibility_checked[r]) :
                visibility_checked[r][i].dep = k /\ ~visibility_checked[r][i].result

(***************************************************************************)
(* Specification of source ownership: targets of directories a and a/b     *)
(* are declared in any order with srcs that name the same files.           *)
(***************************************************************************)

\* The configured duplicated_source_action: error, warning, or anything else
SourceConfigs ==
    {[DefaultConfig EXCEPT !.duplicated_source_action = a] : a \in {"error", "warning", "none"}}

\* The declarations: (directory, name)
SourceTargets ==
    {<<<<"a">>, <<"t">>>>, <<<<"a">>, <<"u">>>>, <<<<"a", "/", "b">>, <<"w">>>>}

\* srcs: f.c, f.c listed twice, b/f.c (a/b/f.c from directory a), and a path
\* through the parent directory
SourceLists ==
    {<< <<"f", ".", "c">> >>,
     << <<"f", ".", "c">>, <<".", "/", "f", ".", "c">> >>,
     << <<"b", "/", "f", ".", "c">> >>,
     << <<".", ".", "/", "b", "/", "f", ".", "c">>, <<"f", ".", "c">> >>}

InitSources ==
    /\ RegistryIdle
    /\ global_config \in SourceConfigs
    /\ GenerateIdle

SourcesDeclare ==
    /\ \E dn \in SourceTargets, srcs \in SourceLists, allow_dup \in BOOLEAN :
          /\ dn[1] \o <<":">> \o dn[2] \notin DOMAIN target_database
          /\ DeclareTarget([PlainArgs(dn[2], <<>>) EXCEPT !.srcs = srcs,
                                                          !.src_exts = {<<"c">>, <<"h">>}],
                           allow_dup, dn[1])
    /\ UNCHANGED generateVars

NextSources == SourcesDeclare

SpecSources == InitSources /\ [][NextSources]_vars

\* The path under which a target claims one of its srcs
FullSrc(t, src) == NormPath(PathJoin(t.path, src))

\* How many entries of t.srcs claim path p
Occurrences(t, p) == Cardinality({i \in 1..Len(t.srcs) : FullSrc(t, t.srcs[i]) = p})

\* The registered targets that claim path p
Claimants(p) == {k \in DOMAIN target_database : Occurrences(target_database[k], p) > 0}

\* The target a step declares
Declared(k) == k \notin DOMAIN target_database /\ k \in DOMAIN target_database'

\* C7: the first claimant of a path is recorded; a recorded owner that
\* disallows duplicate sources is never replaced; an owner that allows them
\* gives way to a later claimant that disallows them; so if any claimant of a
\* path disallows duplicates, the recorded owner does.
C7_DisallowingOwnerKept ==
    [][ /\ \A p \in DOMAIN src_target_map :
              ~src_target_map[p].allow => src_target_map'[p] = src_target_map[p]
        /\ \A k \in DOMAIN target_database' :
              Declared(k) =>
                 \A i \in 1..Len(target_database'[k].srcs) :
                    LET t == target_database'[k]
                        p == FullSrc(t, t.srcs[i])
                    IN  /\ p \notin DOMAIN src_target_map
                           => src_target_map'[p].fullname = t.fullname
                        /\ ( /\ p \in DOMAIN src_target_map
                             /\ src_target_map[p].allow
                             /\ ~t.allow_dup )
                           => src_target_map'[p] = [fullname |-> t.fullname, allow |-> FALSE]
        /\ \A k \in DOMAIN target_database' :
              \A i \in 1..Len(target_database'[k].srcs) :
                 ~target_database'[k].allow_dup =>
                    ~src_target_map'[FullSrc(target_database'[k],
                                             target_database'[k].srcs[i])].allow
      ]_vars

\* C7 witness: a path claimed by a target that allows duplicates and by one
\* that disallows them is owned by the latter, and a third target claims it too.
C7_Witness ==
    \E p \in DOMAIN src_target_map :
        /\ Cardinality(Claimants(p)) = 3
        /\ \E k \in Claimants(p) : target_database[k].allow_dup
        /\ ~src_target_map[p].allow

\* The diagnostics of the duplicate-source policy printed against target k
\* for path p
PolicyDiags(k, p) ==
    {j \in 1..Len(console_log) :
        /\ console_log[j].kind = "already in srcs"
        /\ console_log[j].target = k
        /\ FullSrc(target_database[k], console_log[j].args[1]) = p}

\* The level the configuration asks for, "" if it asks for none
PolicyLevel ==
    IF global_config.duplicated_source_action \in {"error", "warning"}
    THEN global_config.duplicated_source_action ELSE ""

\* C8 as claimed: for every path, each pair of distinct claimants that both
\* disallow duplicates gets the configured diagnostic exactly once, and a
\* target that allows duplicates gets none.
C8_PolicyOncePerPair ==
    \A p \in DOMAIN src_target_map :
        /\ \A k1, k2 \in Claimants(p) :
              ( /\ k1 # k2
                /\ ~target_database[k1].allow_dup /\ ~target_database[k2].allow_dup
                /\ PolicyLevel # "" )
              => Cardinality(
                    {j \in PolicyDiags(k1, p) :
                        /\ console_log[j].args[2] = target_database[k2].fullname
                        /\ console_log[j].level = PolicyLevel}
                    \cup
                    {j \in PolicyDiags(k2, p) :
                        /\ console_log[j].args[2] = target_database[k1].fullname
                        /\ console_log[j].level = PolicyLevel}) = 1
        /\ \A k \in Claimants(p) : target_database[k].allow_dup => PolicyDiags(k, p) = {}

\* C8 amended: the configured diagnostic is printed once for each entry of the
\* srcs of a target that disallows duplicates and is not the recorded owner of
\* the path, when the recorded owner disallows duplicates too; it names the
\* recorded owner; no other diagnostic of the policy is printed, so none
\* against a target that allows duplicates and none if no action is configured.
C8_PolicyPerOccurrenceAgainstOwner ==
    \A p \in DOMAIN src_target_map :
        \A k \in DOMAIN target_database :
            LET t == target_database[k]
                owner == src_target_map[p]
            IN  /\ Cardinality(PolicyDiags(k, p)) =
                      IF /\ PolicyLevel # ""
                         /\ ~t.allow_dup /\ ~owner.allow
                         /\ owner.fullname # t.fullname
                      THEN Occurrences(t, p) ELSE 0
                /\ \A j \in PolicyDiags(k, p) :
                      /\ console_log[j].level = PolicyLevel
                      /\ console_log[j].args[2] = owner.fullname

\* C8 witness: three targets that disallow duplicates claim one path, one of
\* them twice, under a configured action; and a target that allows duplicates
\* claims a path another target owns.
C8_Witness ==
    /\ PolicyLevel = "error"
    /\ \E p \in DOMAIN src_target_map :
          /\ Cardinality({k \in Claimants(p) : ~target_database[k].allow_dup}) >= 2
          /\ \E k \in Claimants(p) :
                /\ ~target_database[k].allow_dup
                /\ Occurrences(target_database[k], p) = 2
                /\ Cardinality(PolicyDiags(k, p)) = 2
    /\ \E p \in DOMAIN src_target_map :
          \E k \in Claimants(p) :
             target_database[k].allow_dup /\ src_target_map[p].fullname # target_database[k].fullname

(***************************************************************************)
(* Fingerprint.  A dict is the sequence of its <<key, value>> items in      *)
(* insertion order; str() is ToString; the digest is kept symbolic.        *)
(***************************************************************************)

\* d[key] = value on an insertion-ordered dict
dict_set(d, key, value) ==
    IF \E i \in 1..Len(d) : d[i][1] = key
    THEN [i \in 1..Len(d) |-> IF d[i][1] = key THEN <<key, value>> ELSE d[i]]
    ELSE Append(d, <<key, value>>)

\* d.update(other)
RECURSIVE dict_update(_, _)
dict_update(d, other) ==
    IF other = <<>> THEN d
    ELSE dict_update(dict_set(d, Head(other)[1], Head(other)[2]), Tail(other))

\* The keys an entropy dict can hold, in the order of string comparison
EntropyKeyOrder ==
    <<"blade_revision", "config", "deps", "name", "srcs", "test_timeout", "type", "x", "y">>

\* items in insertion order, unsorted
sorted_items_mut(d) == d

\* sorted(entropy.items()): keys are unique, so the items are ordered by key
sorted_items(d) ==
    LET present == SelectSeq(EntropyKeyOrder, LAMBDA key : \E i \in 1..Len(d) : d[i][1] = key)
    IN  [j \in 1..Len(present) |->
            d[CHOOSE i \in 1..Len(d) : d[i][1] = present[j]]]

\* blade.revision() and config.digest()
blade_revision == "rev"
config_digest(cfg) == ToString(cfg)

\* md5sum, kept symbolic (and so injective)
md5sum(entropy_str) == "md5(" \o entropy_str \o ")"

\* _fingerprint_entropy: the attr member
fingerprint_entropy(t) == t.attr

\* What fingerprint() reads: the target's own fields and its deps' fingerprints
entropy_inputs(db, t, cfg) ==
    [blade_revision |-> blade_revision,
     config |-> config_digest(cfg),
     type |-> t.type,
     name |-> t.name,
     srcs |-> t.srcs,
     deps |-> [i \in 1..Len(t.deps) |-> db[t.deps[i]].fingerprint],
     extra |-> fingerprint_entropy(t)]

\* The entropy dict: the literal, then entropy['deps'], then update()
entropy(in) ==
    dict_update(
        dict_set(<< <<"blade_revision", in.blade_revision>>,
                    <<"config", in.config>>,
                    <<"type", in.type>>,
                    <<"name", in.name>>,
                    <<"srcs", in.srcs>> >>,
                 "deps", in.deps),
        in.extra)

\* entropy_str = str(sorted(entropy.items()))
entropy_str(in) == ToString(sorted_items(entropy(in)))

\* a test of the memo that always finds it empty
fingerprint_is_none_mut(t) == TRUE

\* fingerprint: `if self.__fingerprint is None`
fingerprint_is_none(t) == t.fingerprint = "None"

\* fingerprint(): memoized; the deps' fingerprints are computed first, in order
RECURSIVE fingerprint(_, _, _)
RECURSIVE fingerprint_deps(_, _, _)
fingerprint_deps(db, cfg, deps) ==
    IF deps = <<>> THEN db
    ELSE Let(fingerprint(db, cfg, Head(deps)),
             LAMBDA db1 : fingerprint_deps(db1, cfg, Tail(deps)))

fingerprint(db, cfg, k) ==
    IF ~fingerprint_is_none(db[k]) THEN db
    ELSE Let(fingerprint_deps(db, cfg, db[k].deps),
             LAMBDA db1 :
                Let(entropy_inputs(db1, db1[k], cfg),
                    LAMBDA in : [db1 EXCEPT ![k].fingerprint = md5sum(entropy_str(in)),
                                            ![k].hashed = in,
                                            ![k].hash_count = @ + 1]))

\* The keys reachable through deps
DepsOf(db, S) ==
    UNION {{db[k].deps[i] : i \in 1..Len(db[k].deps)} : k \in S \cap DOMAIN db}

RECURSIVE Reachable(_, _)
Reachable(db, S) ==
    LET n == S \cup DepsOf(db, S) IN IF n = S THEN S ELSE Reachable(db, n)

\* fingerprint() returns: every reachable dep is registered and no dep reaches itself
FingerprintReturns(db, k) ==
    LET R == Reachable(db, {k})
    IN  /\ R \subseteq DOMAIN db
        /\ \A n \in R : n \notin Reachable(db, DepsOf(db, {n}))

\* target.fingerprint() on the registered target k
CallFingerprint(k) ==
    /\ ~exited
    /\ k \in DOMAIN target_database
    /\ FingerprintReturns(target_database, k)
    /\ target_database' = fingerprint(target_database, global_config, k)
    /\ UNCHANGED <<src_target_map, parse_cache, console_log, exited, global_config,
                   location_result, visibility_checked, parse_returned, constructed>>

\* target.attr[key] = value on the registered target k
SetAttr(k, key, value) ==
    /\ ~exited
    /\ k \in DOMAIN target_database
    /\ target_database' = [target_database EXCEPT ![k].attr = dict_set(@, key, value)]
    /\ UNCHANGED <<src_target_map, parse_cache, console_log, exited, global_config,
                   location_result, visibility_checked, parse_returned, constructed>>

\* target.srcs = srcs on the registered target k
SetSrcs(k, srcs) ==
    /\ ~exited
    /\ k \in DOMAIN target_database
    /\ target_database' = [target_database EXCEPT ![k].srcs = srcs]
    /\ UNCHANGED <<src_target_map, parse_cache, console_log, exited, global_config,
                   location_result, visibility_checked, parse_returned, constructed>>

(***************************************************************************)
(* Specification of fingerprints: a:t and b:t have one name and type, and   *)
(* may depend on c:d; attributes are set in any order before and after the *)
(* fingerprints are taken.                                                 *)
(***************************************************************************)

\* The declarations: (directory, name, the deps it may declare)
FingerprintTargets ==
    {<<<<"a">>, <<"t">>, {<<>>, << <<"/", "/", "c", ":", "d">> >>}>>,
     <<<<"b">>, <<"t">>, {<<>>, << <<"/", "/", "c", ":", "d">> >>}>>,
     <<<<"c">>, <<"d">>, {<<>>}>>}

\* Attribute assignments of each target; the key deps is the one
\* fingerprint() sets itself
AttrInputs(k) ==
    IF k = <<"c", ":", "d">> THEN {<<"x", "1">>}
    ELSE {<<"deps", "1">>, <<"x", "1">>, <<"y", "1">>}

InitFingerprint ==
    /\ RegistryIdle
    /\ global_config = DefaultConfig
    /\ GenerateIdle

FingerprintDeclare ==
    /\ \E dn \in FingerprintTargets :
          \E deps \in dn[3] :
             /\ dn[1] \o <<":">> \o dn[2] \notin DOMAIN target_database
             /\ DeclareTarget(PlainArgs(dn[2], deps), FALSE, dn[1])
    /\ UNCHANGED generateVars

FingerprintSetAttr ==
    /\ \E k \in DOMAIN target_database :
          \E kv \in AttrInputs(k) : SetAttr(k, kv[1], kv[2])
    /\ UNCHANGED generateVars

FingerprintCall ==
    /\ \E k \in DOMAIN target_database : CallFingerprint(k)
    /\ UNCHANGED generateVars

NextFingerprint ==
    \/ FingerprintDeclare
    \/ FingerprintSetAttr
    \/ FingerprintCall

SpecFingerprint == InitFingerprint /\ [][NextFingerprint]_vars

\* The targets whose fingerprint has been computed
Fingerprinted == {k \in DOMAIN target_database : target_database[k].fingerprint # "None"}

\* A dict as the set of its items
Items(d) == {d[i] : i \in 1..Len(d)}

\* C9: two targets that hashed the same type, name, srcs, attributes (as a
\* set of key/value pairs), configuration digest, revision and dependency
\* fingerprints have the same fingerprint, whatever the insertion order of
\* their attributes.
C9_FingerprintDeterministic ==
    \A k1, k2 \in Fingerprinted :
        LET h1 == target_database[k1].hashed
            h2 == target_database[k2].hashed
        IN  ( /\ h1.type = h2.type /\ h1.name = h2.name /\ h1.srcs = h2.srcs
              /\ Items(h1.extra) = Items(h2.extra)
              /\ h1.config = h2.config /\ h1.blade_revision = h2.blade_revision
              /\ h1.deps = h2.deps )
            => target_database[k1].fingerprint = target_database[k2].fingerprint

\* C9 witness: two targets with a dependency hashed the same attributes,
\* inserted in different orders so that their entropy dicts differ in order,
\* and got the same fingerprint.
C9_Witness ==
    \E k1, k2 \in Fingerprinted :
        LET h1 == target_database[k1].hashed
            h2 == target_database[k2].hashed
        IN  /\ k1 # k2
            /\ Items(h1.extra) = Items(h2.extra) /\ entropy(h1) # entropy(h2)
            /\ h1.deps = h2.deps /\ h1.deps # <<>>
            /\ h1.name = h2.name
            /\ target_database[k1].fingerprint = target_database[k2].fingerprint

\* C10 as claimed: for every target that has been fingerprinted and every
\* dependency of it, another fingerprint of that dependency alone gives
\* another entropy string, whatever the entropy mapping holds.
C10_DepFingerprintChangesEntropy ==
    \A k \in Fingerprinted :
        LET h == target_database[k].hashed
        IN  \A i \in 1..Len(h.deps) :
               \A f \in {md5sum("changed")} :
                  f # h.deps[i]
                  => entropy_str([h EXCEPT !.deps[i] = f]) # entropy_str(h)

(***************************************************************************)
(* Specification of the target key parser: _parse_target is called on its  *)
(* own and through _unify_dep of targets of two directories.               *)
(***************************************************************************)

\* A call of _parse_target(dep) from outside a target
CallParseTarget(dep) ==
    /\ ~exited
    /\ \E p \in {parse_target(Context(NewTarget(<<>>, "", <<>>, <<>>, FALSE, global_config)), dep)} :
          /\ parse_cache' = p.ctx.cache
          /\ parse_returned' = [op |-> "_parse_target", dep |-> dep,
                                from_cache |-> dep \in DOMAIN parse_cache,
                                result |-> p.result,
                                self_path |-> <<>>, ok |-> p.result.msgs = <<>>, key |-> <<>>]
    /\ UNCHANGED <<target_database, src_target_map, console_log, exited, global_config,
                   location_result, visibility_checked, constructed>>

\* self._unify_dep(dep) on the registered target k
CallUnifyDep(k, dep) ==
    /\ ~exited
    /\ k \in DOMAIN target_database
    /\ \E u \in {unify_dep(Context(target_database[k]), dep)} :
          /\ CommitTarget(k, u.ctx)
          /\ parse_returned' = [op |-> "_unify_dep", dep |-> dep,
                                from_cache |-> dep \in DOMAIN parse_cache,
                                result |-> u.ctx.cache[dep],
                                self_path |-> target_database[k].path,
                                ok |-> u.ok, key |-> u.key]
    /\ UNCHANGED <<location_result, visibility_checked, constructed>>

\* The strings given to the parser
ParseInputs ==
    {<<"/", "/", "a", "/", "b", "/", ":", "t">>,
     <<":", "t">>,
     <<"#", "z">>,
     <<"a", "/", ".", ".", "/", "b", ":", "t">>,
     <<"a", ":", "b", ":", "c">>,
     <<"a", ":">>,
     <<"/", "a", ":", "t">>,
     <<"a", ".", ".", "b", ":", "t">>,
     <<"a", ":", "t", "\n">>,
     <<"t">>,
     <<".", "/", "b", "/", "/", "c", ":", "t">>,
     <<"a", " ", "b", ":", "t">>}

\* The declarations: (directory, name)
ParseTargets == {<<<<"a">>, <<"x">>>>, <<<<"a", "/", "b">>, <<"y">>>>}

\* Most strings the cache holds
MaxParsed == 2

InitParse ==
    /\ RegistryIdle
    /\ global_config = DefaultConfig
    /\ GenerateIdle

\* a string in the cache, or a new one if the cache has room
ParseBudget(dep) ==
    dep \in DOMAIN parse_cache \/ Cardinality(DOMAIN parse_cache) < MaxParsed

ParseDeclare ==
    /\ \E dn \in ParseTargets :
          /\ dn[1] \o <<":">> \o dn[2] \notin DOMAIN target_database
          /\ DeclareTarget(PlainArgs(dn[2], <<>>), FALSE, dn[1])
    /\ UNCHANGED generateVars

ParseCall ==
    /\ \E dep \in ParseInputs : ParseBudget(dep) /\ CallParseTarget(dep)
    /\ UNCHANGED generateVars

ParseUnify ==
    /\ Len(console_log) < MaxLog
    /\ \E k \in DOMAIN target_database, dep \in ParseInputs :
          ParseBudget(dep) /\ CallUnifyDep(k, dep)
    /\ UNCHANGED generateVars

NextParse ==
    \/ ParseDeclare
    \/ ParseCall
    \/ ParseUnify

SpecParse == InitParse /\ [][NextParse]_vars

C12_Normalization ==
    LET c == parse_returned
    IN  /\ (c.op = "_unify_dep" /\ c.dep = <<"/", "/", "a", "/", "b", "/", ":", "t">>)
           => c.ok /\ c.result.name = <<"t">> /\ c.key = <<"a", "/", "b", ":", "t">>
        /\ (c.op = "_unify_dep" /\ c.dep = <<":", "t">>)
           => c.ok /\ c.result.name = <<"t">> /\ c.key = c.self_path \o <<":", "t">>
        /\ (c.op = "_unify_dep" /\ c.dep = <<"#", "z">>)
           => c.ok /\ c.result.path = <<"#">> /\ c.result.name = <<"z">>
              /\ c.key = <<"#", ":", "z">>
        /\ (c.op = "_unify_dep" /\ c.dep = <<".", "/", "b", "/", "/", "c", ":", "t">>)
           => c.ok /\ c.key = c.self_path \o <<"/", "b", "/", "c", ":", "t">>
        /\ (c.op # "" /\ c.dep = <<"a", "/", ".", ".", "/", "b", ":", "t">>)
           => ~c.ok /\ c.result.msgs = <<"parent path \"..\" is not allowed">>
        /\ (c.op # "" /\ c.dep = <<"a", ":", "b", ":", "c">>)
           => ~c.ok /\ c.result.msgs = <<"format error, missing \",\" between targets?">>

\* C12 witness: the target of directory a/b resolved "//a/b/:t" to a/b:t
\* after the rejection of "a/../b:t" was printed.
C12_Witness ==
    /\ parse_returned.op = "_unify_dep"
    /\ parse_returned.dep = <<"/", "/", "a", "/", "b", "/", ":", "t">>
    /\ parse_returned.self_path = <<"a", "/", "b">>
    /\ parse_returned.key = <<"a", "/", "b", ":", "t">>
    /\ \E i \in 1..Len(console_log) : console_log[i].args = <<<<"a", "/", ".", ".", "/", "b", ":", "t">>>>

\* The grammar (path? ':' | '#') name as the specification words it: path of
\* word characters, '.', '/', '+', '-', with an optional leading //; a
\* non-empty name; a directory that is no absolute path and has no '..' segment
InGrammar(dep) ==
    \/ /\ StartsWith(dep, <<"#">>)
       /\ Len(dep) > 1
       /\ AllIn(DropFirst(dep, 1), NameChars)
    \/ \E i \in 1..Len(dep) :
          LET path == SubSeq(dep, 1, i - 1)
              name == DropFirst(dep, i)
              dir == IF StartsWith(path, <<"/", "/">>) THEN DropFirst(path, 2) ELSE path
          IN  /\ dep[i] = ":"
              /\ AllIn(path, PathChars)
              /\ name # <<>> /\ AllIn(name, NameChars)
              /\ ~StartsWith(dir, <<"/">>)
              /\ \A j \in 1..Len(SplitSlash(dir)) : SplitSlash(dir)[j] # <<".", ".">>

\* C13 as claimed: _parse_target returns no error for exactly the strings of
\* the grammar.
C13_AcceptsExactlyGrammar ==
    parse_returned.op # "" =>
        (parse_returned.result.msgs = <<>> <=> InGrammar(parse_returned.dep))

\* C14 as claimed: an entry that fails to parse does not end the processing
\* of its list: the key of every valid entry of every list given to
\* _init_target_deps or _add_implicit_library is in deps, and the key of every
\* valid entry given to _add_implicit_library is marked implicit.
C14_InvalidEntryDoesNotAbort ==
    \A k \in DOMAIN target_database :
        LET t == target_database[k]
        IN  /\ \A key \in t.offered_valid : InSeq(key, t.deps)
            /\ t.offered_implicit \subseteq t.implicit_deps

\* C15 as claimed: a call of _add_location_reference_target that returns a
\* valid key which was not in deps appends it to deps and records it in the
\* implicit-dependency set.
C15_LocationReferenceIsImplicit ==
    [][ \A k \in DOMAIN target_database :
           ( /\ location_result' # location_result
             /\ location_result'.ok
             /\ ~InSeq(location_result'.key, target_database[k].deps)
             /\ target_database'[k] # target_database[k] )
           => /\ InSeq(location_result'.key, target_database'[k].deps)
              /\ location_result'.key \in target_database'[k].implicit_deps
      ]_vars

(***************************************************************************)
(* Specification of system libraries: two targets refer to #z and #w by    *)
(* _unify_dep and _add_implicit_library, and the build code of the         *)
(* placeholder #:z is asked for.                                           *)
(***************************************************************************)

\* SystemLibrary.generate: pass
SystemLibraryGenerate(th) ==
    /\ stacks[th] # <<>>
    /\ Top(th).fn = "generate"
    /\ Pop(th)
    /\ UNCHANGED <<build_code, next_buffer, generate_calls, returned, calls_started, registryVars,
                   outputVars>>

\* The declarations: (directory, name)
SystemLibraryTargets == {<<<<"a">>, <<"x">>>>, <<<<"b">>, <<"y">>>>}

\* References to system libraries
SystemLibraryStrings == {<<"#", "z">>, <<"#", "w">>}

\* Lists of implicit libraries
SystemLibraryLists == {<< <<"#", "z">> >>, << <<"#", "w">>, <<"#", "z">> >>}

\* The placeholder whose build code is asked for
SystemLibraryKey == <<"#", ":", "z">>

InitSystemLibrary ==
    /\ RegistryIdle
    /\ global_config = DefaultConfig
    /\ GenerateIdle

SystemLibraryDeclare ==
    /\ \E dn \in SystemLibraryTargets :
          /\ dn[1] \o <<":">> \o dn[2] \notin DOMAIN target_database
          /\ DeclareTarget(PlainArgs(dn[2], <<>>), FALSE, dn[1])
    /\ UNCHANGED generateVars

SystemLibraryUnify ==
    /\ \E k \in DOMAIN target_database, dep \in SystemLibraryStrings :
          /\ k[1] # "#"
          /\ CallUnifyDep(k, dep)
    /\ UNCHANGED generateVars

SystemLibraryAddImplicit ==
    /\ \E k \in DOMAIN target_database, deps \in SystemLibraryLists :
          /\ k[1] # "#"
          /\ Len(target_database[k].added) + Len(deps) <= MaxOffered
          /\ CallAddImplicitLibrary(k, deps)
    /\ UNCHANGED generateVars

SystemLibraryCall ==
    /\ SystemLibraryKey \in DOMAIN target_database
    /\ \E fn \in Accessors : CallAccessor(1, fn)

NextSystemLibrary ==
    \/ SystemLibraryDeclare
    \/ SystemLibraryUnify
    \/ SystemLibraryAddImplicit
    \/ SystemLibraryCall
    \/ AccessorEnsure(1)
    \/ AccessorReturn(1)
    \/ GetBuildCodeTest(1)
    \/ GetBuildCodeAssign(1)
    \/ GetBuildCodeGenerate(1)
    \/ GetBuildCodeReturn(1)
    \/ SystemLibraryGenerate(1)

SpecSystemLibrary == InitSystemLibrary /\ [][NextSystemLibrary]_vars

\* C16: whatever targets refer to '#name' by _unify_dep or
\* _add_implicit_library, the registry holds one SystemLibrary under '#:name',
\* registered once; every _unify_dep call returns '#:name'; the placeholder is
\* public with no srcs and no deps, and its statement buffer is empty.
C16_OneSystemLibrary ==
    /\ \A key \in DOMAIN target_database :
          key[1] = "#" =>
             LET lib == target_database[key]
             IN  /\ lib.registrations = 1
                 /\ lib.type = "system_library"
                 /\ key = <<"#", ":">> \o lib.name
                 /\ PUBLIC \in lib.visibility
                 /\ lib.srcs = <<>> /\ lib.deps = <<>>
    /\ \A k \in DOMAIN target_database :
          \A i \in 1..Len(target_database[k].deps) :
             target_database[k].deps[i][1] = "#"
             => target_database[k].deps[i] \in DOMAIN target_database
    /\ (parse_returned.op = "_unify_dep" /\ parse_returned.dep[1] = "#")
       => /\ parse_returned.ok
          /\ parse_returned.key = <<"#", ":">> \o DropFirst(parse_returned.dep, 1)
          /\ parse_returned.key \in DOMAIN target_database
    /\ build_code.rules = <<>>
    /\ \A i \in 1..Len(returned) : returned[i].rules = <<>>

\* C16 witness: two targets depend on #:z, one of them by _unify_dep after
\* the other had registered it, and get_build_code has returned twice.
C16_Witness ==
    /\ \E k1, k2 \in DOMAIN target_database :
          /\ k1 # k2
          /\ InSeq(SystemLibraryKey, target_database[k1].deps)
          /\ parse_returned.op = "_unify_dep"
          /\ parse_returned.self_path = target_database[k2].path
          /\ parse_returned.key = SystemLibraryKey
    /\ target_database[SystemLibraryKey].registrations = 1
    /\ Len(returned) = 2

(***************************************************************************)
(* Specification of the fingerprint memo: a:t, which may depend on c:d, and *)
(* c:d are fingerprinted, and afterwards their attributes, srcs and deps   *)
(* are modified and fingerprint() is called again.                         *)
(***************************************************************************)

\* The declarations: (directory, name, the deps it may declare)
MemoTargets ==
    {<<<<"a">>, <<"t">>, {<<>>, << <<"/", "/", "c", ":", "d">> >>}>>,
     <<<<"c">>, <<"d">>, {<<>>}>>}

InitMemo ==
    /\ RegistryIdle
    /\ global_config = DefaultConfig
    /\ GenerateIdle

MemoDeclare ==
    /\ \E dn \in MemoTargets :
          \E deps \in dn[3] :
             /\ dn[1] \o <<":">> \o dn[2] \notin DOMAIN target_database
             /\ DeclareTarget(PlainArgs(dn[2], deps), FALSE, dn[1])
    /\ UNCHANGED generateVars

MemoSetAttr ==
    /\ \E k \in DOMAIN target_database :
          \E kv \in AttrInputs(k) : SetAttr(k, kv[1], kv[2])
    /\ UNCHANGED generateVars

MemoCall ==
    /\ \E k \in DOMAIN target_database : CallFingerprint(k)
    /\ UNCHANGED generateVars

\* a dependency is added to a target whose fingerprint was taken
MemoAddDeps ==
    /\ \E k \in DOMAIN target_database :
          /\ target_database[k].fingerprint # "None"
          /\ target_database[k].deps = <<>>
          /\ k # <<"c", ":", "d">>
          /\ CallInitTargetDeps(k, << <<"/", "/", "c", ":", "d">> >>)
    /\ UNCHANGED generateVars

\* the srcs of a target whose fingerprint was taken are replaced
MemoSetSrcs ==
    /\ \E k \in DOMAIN target_database :
          /\ target_database[k].fingerprint # "None"
          /\ target_database[k].srcs = <<>>
          /\ SetSrcs(k, << <<"f", ".", "c">> >>)
    /\ UNCHANGED generateVars

NextMemo ==
    \/ MemoDeclare
    \/ MemoSetAttr
    \/ MemoCall
    \/ MemoAddDeps
    \/ MemoSetSrcs

SpecMemo == InitMemo /\ [][NextMemo]_vars

\* C17: once fingerprint() has returned on a target, its memoized value is
\* never computed again and never changes, whatever is modified afterwards:
\* the target's deps, srcs or attributes, or a dependency.
C17_FingerprintMemoized ==
    [][ \A k \in DOMAIN target_database :
           /\ target_database'[k].hash_count <= 1
           /\ target_database[k].fingerprint # "None"
              => /\ target_database'[k].fingerprint = target_database[k].fingerprint
                 /\ target_database'[k].hash_count = target_database[k].hash_count
      ]_vars

\* C17 witness: a target keeps the fingerprint of what it hashed although its
\* attributes, srcs and deps all differ from that now, and its dependency was
\* fingerprinted after one of its own attributes had changed.
C17_Witness ==
    \E k \in Fingerprinted :
        LET t == target_database[k]
        IN  /\ t.hash_count = 1
            /\ t.fingerprint = md5sum(entropy_str(t.hashed))
            /\ t.attr # t.hashed.extra
            /\ t.srcs # t.hashed.srcs
            /\ Len(t.deps) # Len(t.hashed.deps)
            /\ \A i \in 1..Len(t.deps) : t.deps[i] \in Fingerprinted

(***************************************************************************)
(* Build statements.  A line of build code is the sequence of its pieces:  *)
(* the words and the blanks, colon and newline between them.  An optional  *)
(* argument is [none |-> BOOLEAN, list |-> its items].                     *)
(***************************************************************************)

\* var_to_list(var): None gives [], a list gives a copy of it
var_to_list(var) == IF var.none THEN <<>> ELSE var.list

\* `if var:` on an optional list argument
Truthy(var) == ~var.none /\ var.list # <<>>

\* ' '.join(words)
RECURSIVE JoinBlank(_)
JoinBlank(words) ==
    IF words = <<>> THEN <<>>
    ELSE IF Len(words) = 1 THEN words
    ELSE <<Head(words), " ">> \o JoinBlank(Tail(words))

\* generate_build: outs
build_outs(outputs, implicit_outputs) ==
    IF var_to_list(implicit_outputs) # <<>>
    THEN var_to_list(outputs) \o <<"|">> \o var_to_list(implicit_outputs)
    ELSE var_to_list(outputs)

\* the inputs with the order-only inputs put before the implicit ones
build_ins_mut(inputs, implicit_deps, order_only_deps) ==
    var_to_list(inputs)
    \o (IF Truthy(order_only_deps) THEN <<"||">> \o var_to_list(order_only_deps) ELSE <<>>)
    \o (IF Truthy(implicit_deps) THEN <<"|">> \o var_to_list(implicit_deps) ELSE <<>>)

\* generate_build: ins
build_ins(inputs, implicit_deps, order_only_deps) ==
    var_to_list(inputs)
    \o (IF Truthy(implicit_deps) THEN <<"|">> \o var_to_list(implicit_deps) ELSE <<>>)
    \o (IF Truthy(order_only_deps) THEN <<"||">> \o var_to_list(order_only_deps) ELSE <<>>)

\* 'build %s: %s %s' % (' '.join(outs), rule, ' '.join(ins))
build_line(outs, rule, ins) ==
    <<"build", " ">> \o JoinBlank(outs) \o <<":", " ", rule, " ">> \o JoinBlank(ins)

\* the paths to clean with the implicit outputs forgotten
clean_paths_mut(outputs, implicit_outputs, clean) ==
    IF clean.none THEN var_to_list(outputs) ELSE var_to_list(clean)

\* generate_build: clean
clean_paths(outputs, implicit_outputs, clean) ==
    IF clean.none THEN var_to_list(outputs) \o var_to_list(implicit_outputs)
    ELSE var_to_list(clean)

\* generate_build: the line of one variable, '  %s = %s' or '  %s ='
variable_line(name, v) ==
    IF v # "" THEN <<" ", " ", name, " ", "=", " ", v>> ELSE <<" ", " ", name, " ", "=">>

\* _write_rule(rule): the line with its newline is appended to the buffer
write_rule(code, rule) == [code EXCEPT !.rules = Append(@, rule \o <<"\n">>)]

\* generate_build: the loop over the variables
RECURSIVE write_variables(_, _)
write_variables(code, variables) ==
    IF variables = <<>> THEN code
    ELSE write_variables(write_rule(code, variable_line(Head(variables)[1], Head(variables)[2])),
                         Tail(variables))

\* _remove_on_clean(*paths)
remove_on_clean(clean, paths) == clean \o paths

\* generate_build(rule, outputs, ...) on the buffer `code` and the clean list
\* `clean`: what it leaves of both
generate_build(code, clean, a) ==
    Let(write_rule(code, build_line(build_outs(a.outputs, a.implicit_outputs), a.rule,
                                    build_ins(a.inputs, a.implicit_deps, a.order_only_deps))),
        LAMBDA code1 :
    Let(clean_paths(a.outputs, a.implicit_outputs, a.clean), LAMBDA paths :
        [code |-> write_rule(write_variables(code1, a.variables), <<>>),
         clean |-> IF paths # <<>> THEN remove_on_clean(clean, paths) ELSE clean]))

\* generate() of a subclass calls self.generate_build(...)
GenerateBuild(th, a) ==
    /\ stacks[th] # <<>>
    /\ Top(th).fn = "generate"
    /\ ~build_code.none
    /\ \E r \in {generate_build(build_code, clean_list, a)} :
          /\ build_code' = r.code
          /\ clean_list' = r.clean
    /\ last_build' = [called |-> TRUE, rule |-> a.rule, outputs |-> a.outputs,
                      inputs |-> a.inputs, implicit_deps |-> a.implicit_deps,
                      order_only_deps |-> a.order_only_deps, variables |-> a.variables,
                      implicit_outputs |-> a.implicit_outputs, clean |-> a.clean,
                      code_before |-> build_code.rules, clean_before |-> clean_list]
    /\ UNCHANGED <<next_buffer, generate_calls, stacks, returned, calls_started, registryVars,
                   target_files, default_target, file_returned, declared_outputs, raised>>

\* generate() of a subclass calls self._remove_on_clean(*paths)
GenerateRemoveOnClean(th, paths) ==
    /\ stacks[th] # <<>>
    /\ Top(th).fn = "generate"
    /\ clean_list' = remove_on_clean(clean_list, paths)
    /\ UNCHANGED <<build_code, next_buffer, generate_calls, stacks, returned, calls_started,
                   registryVars, target_files, default_target, last_build, file_returned,
                   declared_outputs, raised>>

(***************************************************************************)
(* Specification of build statements: get_build_code is called on a target *)
(* whose generate() makes generate_build and _remove_on_clean calls.       *)
(***************************************************************************)

None == [none |-> TRUE, list |-> <<>>]
List(l) == [none |-> FALSE, list |-> l]

\* The generate_build calls generate() may make
BuildCalls ==
    {[rule |-> "cc", outputs |-> List(<<"a.o">>), inputs |-> None, implicit_deps |-> None,
      order_only_deps |-> None, variables |-> <<>>, implicit_outputs |-> None, clean |-> None],
     [rule |-> "cc", outputs |-> List(<<"a.o", "b.o">>), inputs |-> List(<<"a.c", "b.c">>),
      implicit_deps |-> List(<<"a.h">>), order_only_deps |-> List(<<"gen">>),
      variables |-> << <<"cflags", "-O2">>, <<"empty", "">> >>,
      implicit_outputs |-> List(<<"a.d">>), clean |-> None],
     [rule |-> "ld", outputs |-> List(<<"a.o">>), inputs |-> List(<<"a.c">>),
      implicit_deps |-> None, order_only_deps |-> List(<<"gen">>), variables |-> <<>>,
      implicit_outputs |-> List(<<>>), clean |-> List(<<>>)],
     [rule |-> "ld", outputs |-> List(<<"out/x">>), inputs |-> List(<<"a.o">>),
      implicit_deps |-> List(<<"a.h">>), order_only_deps |-> List(<<>>),
      variables |-> << <<"ldflags", "-s">> >>,
      implicit_outputs |-> List(<<"out/y">>), clean |-> List(<<"out">>)],
     [rule |-> "phony", outputs |-> List(<<>>), inputs |-> None, implicit_deps |-> None,
      order_only_deps |-> None, variables |-> <<>>, implicit_outputs |-> None, clean |-> None]}

\* Most generate_build calls of one generate()
MaxBuilds == 2

\* Most paths in the clean list
MaxClean == 4

\* The generate_build calls made so far
BuildCount == Cardinality({i \in 1..Len(build_code.rules) : build_code.rules[i][1] = "build"})

InitBuild ==
    /\ RegistryIdle
    /\ global_config = DefaultConfig
    /\ GenerateIdle

BuildCall == CallAccessor(1, "get_build_code")

BuildGenerateBuild ==
    /\ BuildCount < MaxBuilds
    /\ \E a \in BuildCalls : GenerateBuild(1, a)

BuildRemoveOnClean ==
    /\ Len(clean_list) < MaxClean
    /\ GenerateRemoveOnClean(1, <<"extra">>)

NextBuild ==
    \/ BuildCall
    \/ GetBuildCodeTest(1)
    \/ GetBuildCodeAssign(1)
    \/ GetBuildCodeGenerate(1)
    \/ GetBuildCodeReturn(1)
    \/ BuildGenerateBuild
    \/ BuildRemoveOnClean
    \/ GenerateReturn(1)

SpecBuild == InitBuild /\ [][NextBuild]_vars

\* C18: a generate_build call leaves the clean list as it was followed by
\* the outputs and the implicit outputs (no clean override), by the override
\* list (non-empty override) or by nothing (empty override); no step removes
\* or reorders an entry the clean list holds.
C18_CleanList ==
    [][ /\ last_build' # last_build
           => LET a == last_build'
              IN  clean_list' =
                     clean_list \o
                     (IF a.clean.none THEN a.outputs.list \o a.implicit_outputs.list
                      ELSE a.clean.list)
        /\ Len(clean_list') >= Len(clean_list)
        /\ SubSeq(clean_list', 1, Len(clean_list)) = clean_list
      ]_vars

\* C18 witness: the clean list holds a path of _remove_on_clean, then the
\* outputs and implicit outputs of a call with no override, and the last call
\* had an empty override.
C18_Witness ==
    /\ last_build.called
    /\ ~last_build.clean.none /\ last_build.clean.list = <<>>
    /\ clean_list = <<"extra", "a.o", "b.o", "a.d">>

\* The words of a line of build code: its pieces but the blanks and the newline
Words(line) == SelectSeq(line, LAMBDA piece : piece \notin {" ", "\n"})

\* C20: a generate_build call appends, after the lines the buffer held, one
\* build line whose words are: build, the outputs, then | and the implicit
\* outputs (if any), the colon, the rule, the inputs, then | and the implicit
\* inputs (if any), then || and the order-only inputs (if any); then one line
\* per variable, and a blank line; no step changes a line the buffer holds.
C20_BuildRecord ==
    [][ /\ last_build' # last_build
           => LET a == last_build'
                  n == Len(build_code.rules)
                  new == build_code'.rules
                  opt(sep, l) == IF l = <<>> THEN <<>> ELSE <<sep>> \o l
              IN  /\ Len(new) = n + 1 + Len(a.variables) + 1
                  /\ Words(new[n + 1]) =
                        <<"build">> \o a.outputs.list \o opt("|", a.implicit_outputs.list)
                        \o <<":", a.rule>> \o a.inputs.list \o opt("|", a.implicit_deps.list)
                        \o opt("||", a.order_only_deps.list)
                  /\ \A i \in 1..Len(a.variables) :
                        Words(new[n + 1 + i]) =
                           <<a.variables[i][1], "=">>
                           \o (IF a.variables[i][2] = "" THEN <<>> ELSE <<a.variables[i][2]>>)
                  /\ Words(new[Len(new)]) = <<>>
        /\ ~build_code.none
           => /\ Len(build_code'.rules) >= Len(build_code.rules)
              /\ SubSeq(build_code'.rules, 1, Len(build_code.rules)) = build_code.rules
      ]_vars

\* C20 witness: the buffer holds the record of a call with every kind of
\* field after the record of another call.
C20_Witness ==
    /\ last_build.called
    /\ last_build.code_before # <<>>
    /\ ~build_code.none
    /\ Len(build_code.rules) = Len(last_build.code_before) + 4
    /\ build_code.rules[Len(last_build.code_before) + 1] =
          <<"build", " ", "a.o", " ", "b.o", " ", "|", " ", "a.d", ":", " ", "cc", " ",
            "a.c", " ", "b.c", " ", "|", " ", "a.h", " ", "||", " ", "gen", "\n">>

(***************************************************************************)
(* Target files.  Target.__targets is the sequence of its <<label, path>>  *)
(* items; a path is a string, the empty string included.                   *)
(***************************************************************************)

\* _add_target_file(label, path): what it leaves of __targets and __default_target
add_target_file(files, default, label, path) ==
    [files |-> dict_set(files, label, path),
     default |-> IF default = "" THEN path ELSE default]

\* self.__targets.get(label, '')
targets_get(files, label) ==
    IF \E i \in 1..Len(files) : files[i][1] = label
    THEN files[CHOOSE i \in 1..Len(files) : files[i][1] = label][2]
    ELSE ""

\* _get_target_file(label): the value returned after get_build_code()
get_target_file(files, default, label) ==
    IF label # "" THEN targets_get(files, label) ELSE default

\* self._add_target_file(label, path), called while th runs generate() or,
\* with no call in progress, from outside
AddTargetFile(th, label, path) ==
    /\ IF stacks[th] = <<>> THEN TRUE ELSE Top(th).fn = "generate"
    /\ \E r \in {add_target_file(target_files, default_target, label, path)} :
          /\ target_files' = r.files
          /\ default_target' = r.default
    /\ declared_outputs' = Append(declared_outputs, <<label, path>>)
    /\ UNCHANGED <<build_code, next_buffer, generate_calls, stacks, returned, calls_started,
                   registryVars, clean_list, last_build, file_returned, raised>>

\* A caller outside the target calls _get_target_file(label) on thread th
CallGetTargetFile(th, label) ==
    /\ stacks[th] = <<>>
    /\ calls_started < MaxCalls
    /\ calls_started' = calls_started + 1
    /\ Push(th, [fn |-> "_get_target_file", pc |-> "test"])
    /\ file_returned' = [file_returned EXCEPT !.called = FALSE, !.label = label, !.result = ""]
    /\ UNCHANGED <<build_code, next_buffer, generate_calls, returned, registryVars,
                   clean_list, target_files, default_target, last_build, declared_outputs,
                   raised>>

\* _get_target_file: the return of the recorded path or of the default
GetTargetFileReturn(th) ==
    /\ stacks[th] # <<>>
    /\ Top(th).fn = "_get_target_file"
    /\ Top(th).pc = "return"
    /\ Pop(th)
    /\ file_returned' = [file_returned EXCEPT
                            !.called = TRUE,
                            !.result = get_target_file(target_files, default_target,
                                                       file_returned.label),
                            !.count = @ + 1]
    /\ UNCHANGED <<build_code, next_buffer, generate_calls, returned, calls_started,
                   registryVars, clean_list, target_files, default_target, last_build,
                   declared_outputs, raised>>

(***************************************************************************)
(* Specification of target files: outputs are declared from outside and by *)
(* generate(), and _get_target_file is called with and without a label.    *)
(***************************************************************************)

\* The outputs declared: (label, path)
OutputFiles == {<<"a", "">>, <<"a", "x">>, <<"a", "y">>, <<"b", "y">>}

\* The labels asked for, the empty one for the default
OutputLabels == {"", "a", "b"}

\* Most _add_target_file calls
MaxOutputs == 2

InitFiles ==
    /\ RegistryIdle
    /\ global_config = DefaultConfig
    /\ GenerateIdle

FilesAdd ==
    /\ Len(declared_outputs) < MaxOutputs
    /\ \E f \in OutputFiles : AddTargetFile(1, f[1], f[2])

FilesGet == \E label \in OutputLabels : CallGetTargetFile(1, label)

NextFiles ==
    \/ FilesAdd
    \/ FilesGet
    \/ AccessorEnsure(1)
    \/ GetBuildCodeTest(1)
    \/ GetBuildCodeAssign(1)
    \/ GetBuildCodeGenerate(1)
    \/ GetBuildCodeReturn(1)
    \/ GenerateReturn(1)
    \/ GetTargetFileReturn(1)

SpecFiles == InitFiles /\ [][NextFiles]_vars

\* C19 as claimed: _get_target_file() with no label returns the path of the
\* first output declared, whatever that path is; _get_target_file(label)
\* returns the path last recorded for the label, or '' if there is none.
C19_DefaultIsFirstDeclared ==
    [][ (file_returned' # file_returned /\ file_returned'.called)
        => LET d == declared_outputs
               label == file_returned'.label
               of == {i \in 1..Len(d) : d[i][1] = label}
           IN  file_returned'.result =
                  IF label = ""
                  THEN IF d = <<>> THEN "" ELSE d[1][2]
                  ELSE IF of = {} THEN ""
                  ELSE d[CHOOSE i \in of : \A j \in of : j <= i][2]
      ]_vars

(***************************************************************************)
(* Specification of construction: targets of directory a are declared with *)
(* and without a name, leftover options, invalid sources and malformed     *)
(* dependencies, and each Target.__init__ is traced.                       *)
(***************************************************************************)

\* A BUILD rule declares a target, as DeclareTarget, with the arguments and the
\* target Target.__init__ left recorded
ConstructTarget(args, allow_dup, current_source_path) ==
    /\ ~exited
    /\ \E c \in {target_init(Context(NewTarget(<<>>, "", <<>>, <<>>, FALSE, global_config)),
                             args, allow_dup, current_source_path)} :
          /\ IF c.exited THEN Commit(c)
             ELSE IF c.t.key \in DOMAIN c.db
             THEN Commit([c EXCEPT !.log = Append(@, Diag("fatal", c.t, "Target is duplicate",
                                                          "", <<>>)),
                                   !.exited = TRUE])
             ELSE Commit([c EXCEPT !.db = register_target(@, c.t)])
          /\ constructed' = [count |-> constructed.count + 1, args |-> args, t |-> c.t]
    /\ UNCHANGED <<location_result, visibility_checked, parse_returned>>

\* The names given: none, t, u and one with a directory part
ConstructNames == {<<>>, <<"t">>, <<"u">>, <<"d", "/", "t">>}

\* The leftover options given
ConstructKwargs == {<<>>, <<"foo">>}

\* srcs and deps given: an existing source and a well-formed dependency, or a
\* source outside the directory and a malformed dependency before a good one
ConstructSrcsDeps ==
    {[srcs |-> << <<"f", ".", "c">> >>, deps |-> << <<":", "u">> >>],
     [srcs |-> << <<"/", "x", ".", "c">> >>, deps |-> << <<"a", ":">>, <<":", "u">> >>]}

\* The visibility given: None or ['PUBLIC']
ConstructVisibilities == {NoVisibility, [none |-> FALSE, list |-> <<PUBLIC>>]}

\* Most constructions traced
MaxConstructed == 2

InitConstruct ==
    /\ RegistryIdle
    /\ global_config = DefaultConfig
    /\ GenerateIdle

ConstructDeclare ==
    /\ constructed.count < MaxConstructed
    /\ \E name \in ConstructNames, kwargs \in ConstructKwargs, sd \in ConstructSrcsDeps,
          visibility \in ConstructVisibilities :
          ConstructTarget([name |-> name, type |-> "cc_library", srcs |-> sd.srcs,
                           src_exts |-> {<<"c">>}, deps |-> sd.deps,
                           visibility |-> visibility, kwargs |-> kwargs],
                          FALSE, <<"a">>)
    /\ UNCHANGED generateVars

NextConstruct == ConstructDeclare

SpecConstruct == InitConstruct /\ [][NextConstruct]_vars

\* The step of Target.__init__ and of the registration that prints a diagnostic
ConstructStage(kind) ==
    CASE kind = "Missing \"name\"" -> 1
      [] kind = "Invalid target name" -> 2
      [] kind = "Unrecognized options" -> 3
      [] kind \in {"Invalid source file path", "Invalid source file name",
                   "File does not exist, missing \",\"", "Duplicate source file paths",
                   "already in srcs"} -> 4
      [] kind = "Invalid dependency" -> 5
      [] OTHER -> 7

\* The diagnostics a step has printed
NewDiags == SubSeq(console_log', Len(console_log) + 1, Len(console_log'))

\* The diagnostics of a construction follow the order of the validations
ConstructOrdered ==
    \A i, j \in 1..Len(NewDiags) :
        i < j => ConstructStage(NewDiags[i].kind) <= ConstructStage(NewDiags[j].kind)

\* An empty name is fatal: nothing else is printed and no later step has run
MissingNameFatal ==
    constructed'.args.name = <<>> =>
        /\ NewDiags = <<Diag("fatal", constructed'.t, "Missing \"name\"", "", <<>>)>>
        /\ exited'
        /\ src_target_map' = src_target_map
        /\ target_database' = target_database
        /\ parse_cache' = parse_cache
        /\ constructed'.t.deps = <<>>
        /\ constructed'.t.visibility = {}
        /\ constructed'.t.visibility_is_default

\* The later steps of a construction have run: the sources are owned, the
\* valid dependencies are registered and the visibility is computed
LaterStepsRan ==
    LET t == constructed'.t
        args == constructed'.args
    IN  /\ \A i \in 1..Len(args.srcs) : FullSrc(t, args.srcs[i]) \in DOMAIN src_target_map'
        /\ {t.deps[i] : i \in 1..Len(t.deps)} = ValidKeys(t, args.deps)
        /\ t.deps # <<>>
        /\ t.visibility_arg = args.visibility
        /\ ~args.visibility.none => (~t.visibility_is_default /\ t.visibility = {PUBLIC})

\* No later step of a construction has run
LaterStepsSkipped ==
    /\ src_target_map' = src_target_map
    /\ constructed'.t.deps = <<>>
    /\ constructed'.t.visibility = {}
    /\ constructed'.t.visibility_is_default

\* A name with a directory part, an invalid source path and a malformed
\* dependency are each reported with an error and construction goes on
ReportedAndContinued ==
    LET t == constructed'.t
        args == constructed'.args
        printed(level, kind) ==
            \E i \in 1..Len(NewDiags) : /\ NewDiags[i].kind = kind
                                        /\ NewDiags[i].level = level
                                        /\ NewDiags[i].target = t.key
    IN  (args.name # <<>> /\ args.kwargs = <<>>) =>
           /\ InSeq("/", args.name) <=> printed("error", "Invalid target name")
           /\ (\E i \in 1..Len(args.srcs) : StartsWith(args.srcs[i], <<"/">>))
                 <=> printed("error", "Invalid source file path")
           /\ (\E i \in 1..Len(args.deps) : args.deps[i] = <<"a", ":">>)
                 <=> printed("error", "Invalid dependency")
           /\ LaterStepsRan
           /\ exited' => NewDiags[Len(NewDiags)].kind = "Target is duplicate"

\* C21 as claimed: construction validates in the order name supplied, name
\* without directory separator, no leftover options, sources, dependencies,
\* visibility; an empty name and any leftover option are each fatal and end
\* construction before the later steps run; a name with a separator, an
\* invalid source path and a malformed dependency are reported and
\* construction continues.
C21_LeftoverOptionIsFatal ==
    [][ constructed'.count # constructed.count =>
          /\ ConstructOrdered
          /\ MissingNameFatal
          /\ ReportedAndContinued
          /\ (constructed'.args.name # <<>> /\ constructed'.args.kwargs # <<>>) =>
                /\ exited'
                /\ LaterStepsSkipped
      ]_vars

\* C21, amended: the same order; only an empty name is fatal; a leftover
\* option is reported with an error after the name checks and before the
\* source diagnostics, and construction continues with the sources, the
\* dependencies and the visibility, as it does after a name with a separator,
\* an invalid source path and a malformed dependency.
C21_ConstructionOrder ==
    [][ constructed'.count # constructed.count =>
          /\ ConstructOrdered
          /\ MissingNameFatal
          /\ ReportedAndContinued
          /\ (constructed'.args.name # <<>> /\ constructed'.args.kwargs # <<>>) =>
                /\ \E i \in 1..Len(NewDiags) :
                      NewDiags[i] = Diag("error", constructed'.t, "Unrecognized options", "",
                                         constructed'.args.kwargs)
                /\ LaterStepsRan
                /\ exited' => NewDiags[Len(NewDiags)].kind = "Target is duplicate"
      ]_vars

\* A target named d/t with a leftover option, a source outside its directory
\* and a malformed dependency has been constructed and registered, all four
\* diagnostics printed in the order of the validations
C21_Witness ==
    /\ ~exited
    /\ constructed.count > 0
    /\ constructed.args.name = <<"d", "/", "t">>
    /\ constructed.args.kwargs = <<"foo">>
    /\ constructed.t.key \in DOMAIN target_database
    /\ constructed.t.deps = << <<"a", ":", "u">> >>
    /\ constructed.t.visibility = {PUBLIC}
    /\ Len(console_log) >= 4
    /\ LET n == Len(console_log)
       IN  /\ console_log[n - 3].kind = "Invalid target name"
           /\ console_log[n - 2].kind = "Unrecognized options"
           /\ console_log[n - 1].kind = "Invalid source file path"
           /\ console_log[n].kind = "Invalid dependency"

(***************************************************************************)
(* The implicit-dependency set and deps                                    *)
(***************************************************************************)

\* The keys of a deps sequence
DepKeys(t) == {t.deps[i] : i \in 1..Len(t.deps)}

\* C22: after every operation (_init_target_deps, _add_implicit_library,
\* _add_location_reference_target, construction), the implicit-dependency set
\* of every target is a subset of the keys in its deps, and the deps a target
\* had before the operation are still there, at the same positions.
C22_ImplicitSubsetOfDeps ==
    [][ \A k \in DOMAIN target_database' :
           LET t2 == target_database'[k]
           IN  /\ t2.implicit_deps \subseteq DepKeys(t2)
               /\ k \in DOMAIN target_database =>
                     LET t == target_database[k]
                     IN  /\ Len(t.deps) <= Len(t2.deps)
                         /\ SubSeq(t2.deps, 1, Len(t.deps)) = t.deps
      ]_vars

\* C22 witness: a:x holds two dependencies, the first implicit and the second
\* not, and the implicit one was offered again when deps already held it
C22_Witness ==
    /\ DepsTargetKey \in DOMAIN target_database
    /\ LET t == target_database[DepsTargetKey]
       IN  /\ Len(t.deps) = 2
           /\ t.implicit_deps = {t.deps[1]}
           /\ Len(t.added) = 3
           /\ t.added[3] = t.deps[1]

(***************************************************************************)
(* fingerprint() step by step: each call is a frame [fn, pc, k, i] of the  *)
(* calling thread, k the target and i the position in its deps of the next *)
(* dependency to ask; a missing key (KeyError) and a recursion deeper than *)
(* the interpreter allows (RecursionError) leave the outermost call as an  *)
(* exception.                                                              *)
(***************************************************************************)

\* What a step of fingerprint() leaves alone
FingerprintFrame ==
    UNCHANGED <<src_target_map, parse_cache, console_log, exited, global_config,
                location_result, visibility_checked, parse_returned, constructed,
                build_code, next_buffer, generate_calls, outputVars>>

\* A caller outside calls target.fingerprint() on the registered target k
FingerprintEnter(th, k) ==
    /\ ~exited
    /\ stacks[th] = <<>>
    /\ k \in DOMAIN target_database
    /\ calls_started < MaxCalls
    /\ calls_started' = calls_started + 1
    /\ Push(th, [fn |-> "fingerprint", pc |-> "test", k |-> k, i |-> 1])
    /\ UNCHANGED <<target_database, returned>>
    /\ FingerprintFrame

\* `if self.__fingerprint is None`
FingerprintTest(th) ==
    /\ stacks[th] # <<>>
    /\ Top(th).fn = "fingerprint"
    /\ Top(th).pc = "test"
    /\ SetPc(th, IF fingerprint_is_none(target_database[Top(th).k]) THEN "deps" ELSE "return")
    /\ UNCHANGED <<target_database, returned, calls_started>>
    /\ FingerprintFrame

\* One round of the list comprehension: self.target_database[dep].fingerprint()
FingerprintDep(th) ==
    /\ stacks[th] # <<>>
    /\ Top(th).fn = "fingerprint"
    /\ Top(th).pc = "deps"
    /\ LET f == Top(th)
           callees == target_database[f.k].deps
           n == Len(stacks[th])
       IN  IF f.i > Len(callees)
           THEN SetPc(th, "hash")
           ELSE IF callees[f.i] \notin DOMAIN target_database \/ n >= MaxDepth
           THEN stacks' = [stacks EXCEPT ![th] = <<[stacks[th][1] EXCEPT !.pc = "raise"]>>]
           ELSE stacks' = [stacks EXCEPT
                             ![th] = Append([@ EXCEPT ![n].i = f.i + 1],
                                            [fn |-> "fingerprint", pc |-> "test",
                                             k |-> callees[f.i], i |-> 1])]
    /\ UNCHANGED <<target_database, returned, calls_started>>
    /\ FingerprintFrame

\* the hash computed and returned without the assignment of self.__fingerprint
FingerprintHash_mut(th) ==
    /\ stacks[th] # <<>>
    /\ Top(th).fn = "fingerprint"
    /\ Top(th).pc = "hash"
    /\ SetPc(th, "return")
    /\ UNCHANGED <<target_database, returned, calls_started>>
    /\ FingerprintFrame

\* entropy.update, sorted, md5sum and the assignment of self.__fingerprint
FingerprintHash(th) ==
    /\ stacks[th] # <<>>
    /\ Top(th).fn = "fingerprint"
    /\ Top(th).pc = "hash"
    /\ \E in \in {entropy_inputs(target_database, target_database[Top(th).k], global_config)} :
          target_database' = [target_database EXCEPT
                                 ![Top(th).k].fingerprint = md5sum(entropy_str(in)),
                                 ![Top(th).k].hashed = in,
                                 ![Top(th).k].hash_count = @ + 1]
    /\ SetPc(th, "return")
    /\ UNCHANGED <<returned, calls_started>>
    /\ FingerprintFrame

\* `return self.__fingerprint`
FingerprintReturn(th) ==
    /\ stacks[th] # <<>>
    /\ Top(th).fn = "fingerprint"
    /\ Top(th).pc = "return"
    /\ Pop(th)
    /\ returned' = IF Len(stacks[th]) = 1
                   THEN Append(returned, [fn |-> "fingerprint", k |-> Top(th).k,
                                          raised |-> FALSE])
                   ELSE returned
    /\ UNCHANGED <<target_database, calls_started>>
    /\ FingerprintFrame

\* The exception leaves the outermost call
FingerprintPropagate(th) ==
    /\ stacks[th] # <<>>
    /\ Top(th).fn = "fingerprint"
    /\ Top(th).pc = "raise"
    /\ Pop(th)
    /\ returned' = Append(returned, [fn |-> "fingerprint", k |-> Top(th).k, raised |-> TRUE])
    /\ UNCHANGED <<target_database, calls_started>>
    /\ FingerprintFrame

\* The steps of the fingerprint() calls of thread th
FingerprintStep(th) ==
    \/ FingerprintTest(th)
    \/ FingerprintDep(th)
    \/ FingerprintHash(th)
    \/ FingerprintReturn(th)
    \/ FingerprintPropagate(th)

(***************************************************************************)
(* Specification of fingerprint calls: a:t, b:t and c:d are declared with  *)
(* dependencies that form chains, a diamond, cycles or name a target that  *)
(* is never declared, and fingerprint() is called on any of them at any    *)
(* time.  A call that has begun goes on running.                           *)
(***************************************************************************)

\* The declarations: (directory, name, the deps it may declare)
GraphTargets ==
    {<<<<"a">>, <<"t">>, {<<>>,
                          << <<"/", "/", "b", ":", "t">>, <<"/", "/", "c", ":", "d">> >>,
                          << <<"/", "/", "b", ":", "t">> >>,
                          << <<"/", "/", "m", ":", "m">> >>}>>,
     <<<<"b">>, <<"t">>, {<<>>,
                          << <<"/", "/", "c", ":", "d">> >>,
                          << <<"/", "/", "a", ":", "t">> >>}>>,
     <<<<"c">>, <<"d">>, {<<>>, << <<"/", "/", "c", ":", "d">> >>}>>}

InitGraph ==
    /\ RegistryIdle
    /\ global_config = DefaultConfig
    /\ GenerateIdle

GraphDeclare ==
    /\ stacks[1] = <<>>
    /\ \E dn \in GraphTargets :
          \E deps \in dn[3] :
             /\ dn[1] \o <<":">> \o dn[2] \notin DOMAIN target_database
             /\ DeclareTarget(PlainArgs(dn[2], deps), FALSE, dn[1])
    /\ UNCHANGED generateVars

GraphCall == \E k \in DOMAIN target_database : FingerprintEnter(1, k)

NextGraph ==
    \/ GraphDeclare
    \/ GraphCall
    \/ FingerprintTest(1)
    \/ FingerprintDep(1)
    \/ FingerprintHash(1)
    \/ FingerprintReturn(1)
    \/ FingerprintPropagate(1)

SpecGraph == InitGraph /\ [][NextGraph]_vars /\ WF_vars(FingerprintStep(1))

\* The outermost fingerprint() call running on thread 1 is on a target whose
\* reachable dependencies are all registered and acyclic
GraphCallReturns ==
    /\ stacks[1] # <<>>
    /\ FingerprintReturns(target_database, stacks[1][1].k)

\* C23: a fingerprint() call on a target whose reachable dependency graph is
\* acyclic and registered terminates, by returning and not by an exception;
\* when it returns, the target and every target reachable through deps have a
\* memoized fingerprint, and the entropy of each of them has been computed
\* exactly once, also when it is reachable along several paths.
C23_FingerprintTerminates ==
    /\ GraphCallReturns ~> (stacks[1] = <<>>)
    /\ [][ GraphCallReturns =>
             /\ stacks'[1] # <<>> => stacks'[1][Len(stacks'[1])].pc # "raise"
             /\ \A i \in 1..Len(returned') : i > Len(returned) => ~returned'[i].raised
             /\ stacks'[1] = <<>> =>
                   \A n \in Reachable(target_database, {stacks[1][1].k}) :
                      /\ target_database'[n].fingerprint # "None"
                      /\ target_database'[n].hash_count = 1
         ]_vars

\* C23 witness: the diamond a:t -> b:t -> c:d, a:t -> c:d; the call on a:t is
\* about to return and all three are memoized
C23_Witness ==
    /\ Len(stacks[1]) = 1
    /\ stacks[1][1].k = <<"a", ":", "t">>
    /\ stacks[1][1].pc = "return"
    /\ DOMAIN target_database = {<<"a", ":", "t">>, <<"b", ":", "t">>, <<"c", ":", "d">>}
    /\ target_database[<<"a", ":", "t">>].deps = <<<<"b", ":", "t">>, <<"c", ":", "d">>>>
    /\ target_database[<<"b", ":", "t">>].deps = <<<<"c", ":", "d">>>>
    /\ \A k \in DOMAIN target_database : target_database[k].hash_count = 1

(***************************************************************************)
(* Specification of a failing generation: one thread calls the accessors   *)
(* and before_generate in any order, and generate() may raise after        *)
(* writing none or some of its statements.                                 *)
(***************************************************************************)

InitRaise ==
    /\ RegistryIdle
    /\ global_config = DefaultConfig
    /\ GenerateIdle

RaiseBeforeGenerate == CallBeforeGenerate(1)

NextRaise ==
    \/ \E fn \in Accessors : CallAccessor(1, fn)
    \/ RaiseBeforeGenerate
    \/ AccessorEnsure(1)
    \/ AccessorReturn(1)
    \/ GetBuildCodeTest(1)
    \/ GetBuildCodeAssign(1)
    \/ GetBuildCodeGenerate(1)
    \/ GetBuildCodeReturn(1)
    \/ GenerateWriteRule(1)
    \/ \E fn \in Accessors : GenerateCallAccessor(1, fn)
    \/ GenerateReturn(1)
    \/ GenerateRaise(1)

SpecRaise == InitRaise /\ [][NextRaise]_vars

\* C24: when generate() raises during the first get_build_code call, the
\* buffer is already a list and stays that list; from then on generate() is
\* not invoked again, the buffer is not written, every get_build_code that
\* returns (called directly or inside _get_target_file) returns that list with
\* the statements written before the exception, and every before_generate
\* call fails its assertion.
C24_RaisedGenerateLeavesBuffer ==
    [][ /\ (raised' # raised /\ raised'[Len(raised')] = "generate")
           => /\ ~build_code'.none
              /\ build_code' = build_code
        /\ InSeq("generate", raised)
           => /\ build_code' = build_code
              /\ ~build_code.none
              /\ generate_calls' = generate_calls
              /\ \A i \in 1..Len(returned') :
                    i > Len(returned) => /\ returned'[i].id = build_code.id
                                         /\ returned'[i].rules = build_code.rules
              /\ (calls_started' # calls_started /\ stacks' = stacks)
                    => raised' = Append(raised, "before_generate")
      ]_vars

\* C24 witness: generate() raised after writing a statement; later a
\* _get_target_file call got the partially filled buffer from get_build_code
\* and returned, and a before_generate call failed
C24_Witness ==
    /\ raised = <<"generate", "before_generate">>
    /\ generate_calls = <<1>>
    /\ stacks[1] = <<>>
    /\ build_code.rules # <<>>
    /\ Len(returned) = 1
    /\ returned[1].depth = 2
    /\ returned[1].rules = build_code.rules

====
